---- MODULE Spec2Model ----
(***************************************************************************)
(* Verification model of the unwise-backend expense-sharing service.       *)
(*                                                                         *)
(* Money is counted in thousandths of a currency unit, so 0.01 is 10 and   *)
(* the amount tolerance 0.001 is 1.  Requests carry float64 amounts with   *)
(* any number of decimals; the DECIMAL(10, 2) columns keep two.            *)
(***************************************************************************)
EXTENDS Integers, Sequences, FiniteSets, TLC

VARIABLES
    db,        \* the relational store: groups, members, users, expenses, payers, splits, items
    last,      \* outcome of the last service call
    balances,  \* settlement run: user -> currency -> balance, as GetGroupMemberBalances returned it
    heaps,     \* settlement run: currency -> [creditor, debtor] heaps
    settlements, \* settlement run: currency -> edges emitted so far
    phase,     \* settlement run: currency -> "init" | "loop" | "done"
    step,      \* settlement run: the last loop iteration
    reqs,      \* claim and assign requests in flight: slot -> request
    wins,      \* placeholder -> number of claim or assign requests that returned nil
    urows,     \* the users table: id -> row, as EnsureUser reads and writes it
    ens,       \* EnsureUser calls in flight: slot -> call
    http,      \* the request at the authentication middleware and what became of it
    imp,       \* the CSV import or preview in progress
    scan,      \* the model's reply to a receipt scan and the text made of it
    rl,        \* the rate limiters of one client IP and the clock
    upd,       \* concurrent Update requests on one expense: slot -> transaction, and the commit order
    del,       \* the group Delete request in flight, between its balance check and its DELETE
    jwks,      \* the JWKS cache, its read/write lock and the goroutines inside getSupabasePublicKey
    expl       \* expenses.explanation by expense, the cache writes in flight, and the last ExplainTransaction reply

vars == <<db, last, balances, heaps, settlements, phase, step, reqs, wins,
          urows, ens, http, imp, scan, rl, upd, del, jwks, expl>>

settleVars == <<balances, heaps, settlements, phase, step>>
claimVars == <<reqs, wins>>
extVars == <<scan, rl, upd, del, jwks, expl>>
coreVars == <<db, last, settleVars, claimVars, urows, ens, http, imp>>
auxVars == <<urows, ens, http, imp, extVars>>

NULL == "null"

\* ------------------------------------------------------------------ universe

RealUsers == {"u1", "u2"}
Placeholders == {"p1"}
Users == RealUsers \cup Placeholders
GroupIds == {"g1"}
MaxExpenses == 1
MaxWins == 2
MaxComments == 2
MaxRows == 2
ExpenseIds == 1..MaxExpenses
Currencies == {"INR", "USD"}

\* services/constants.go
BalanceThreshold == 10
AmountTolerance == 1
RoundingFactor == 100

Abs(x) == IF x < 0 THEN -x ELSE x

Min(a, b) == IF a < b THEN a ELSE b

\* math.Round(x * RoundingFactor) / RoundingFactor: half away from zero
Round2(x) ==
    LET unit == 1000 \div RoundingFactor
        q == (Abs(x) + unit \div 2) \div unit
    IN  IF x < 0 THEN -(q * unit) ELSE q * unit

\* A value stored in a DECIMAL(10, 2) column: the store rounds it to two decimals.
Numeric2(x) ==
    LET q == (Abs(x) + 5) \div 10
    IN  IF x < 0 THEN -(q * 10) ELSE q * 10

RECURSIVE SumSeq(_)
SumSeq(s) == IF s = <<>> THEN 0 ELSE s[1].amount + SumSeq(Tail(s))

RECURSIVE SumRows(_)
SumRows(S) ==
    IF S = {} THEN 0
    ELSE LET r == CHOOSE x \in S : TRUE IN r.amount + SumRows(S \ {r})

\* ------------------------------------------------------------------ the store

\* The store after the migrations and the first sign-ups: one group whose
\* members are a real user and a placeholder, and no expense yet
InitDb ==
    [groups |-> {"g1"},
     members |-> {<<"g1", "u1">>, <<"g1", "p1">>},
     claimedBy |-> [p \in Placeholders |-> NULL],
     expenses |-> <<>>,
     payers |-> {},
     splits |-> {},
     items |-> {},
     friends |-> {},
     comments |-> <<>>,
     reactions |-> {},
     names |-> [g \in {"g1"} |-> "n0"]]

PayersOf(d, e) == {r \in d.payers : r.expense = e}
SplitsOf(d, e) == {r \in d.splits : r.expense = e}
ItemsOf(d, e) == {r \in d.items : r.expense = e}

IsMember(d, g, u) == <<g, u>> \in d.members

\* INSERT INTO expenses
InsertExpense(d, e, row) ==
    [d EXCEPT !.expenses =
        (e :> [group |-> row.group, paidBy |-> row.paidBy, total |-> Numeric2(row.total),
               currency |-> row.currency, category |-> row.category]) @@ d.expenses]

\* UPDATE expenses SET total_amount, ..., category WHERE id: group, currency
\* and paid_by_user_id are not in the SET list
UpdateExpense(d, e, row) ==
    IF e \notin DOMAIN d.expenses THEN d
    ELSE [d EXCEPT !.expenses[e].total = Numeric2(row.total),
                   !.expenses[e].category = row.category]

\* INSERT INTO expense_payers ... ON CONFLICT (expense_id, user_id) DO UPDATE SET amount_paid
CreatePayer(d, e, p) ==
    [d EXCEPT !.payers =
        {r \in d.payers : ~(r.expense = e /\ r.user = p.user)}
            \cup {[expense |-> e, user |-> p.user, amount |-> Numeric2(p.amount)]}]

\* INSERT INTO expense_splits: no uniqueness on (expense_id, user_id)
CreateSplit(d, e, i, s) ==
    [d EXCEPT !.splits =
        d.splits \cup {[expense |-> e, idx |-> i, user |-> s.user, amount |-> Numeric2(s.amount)]}]

\* INSERT INTO receipt_items, then one receipt_item_assignments row per assigned user
CreateReceiptItem(d, e, i, it) ==
    [d EXCEPT !.items = d.items \cup {[expense |-> e, idx |-> i, assigned |-> it]}]

DeletePayers(d, e) == [d EXCEPT !.payers = {r \in d.payers : r.expense # e}]
DeleteSplits(d, e) == [d EXCEPT !.splits = {r \in d.splits : r.expense # e}]
DeleteReceiptItems(d, e) == [d EXCEPT !.items = {r \in d.items : r.expense # e}]

RECURSIVE InsertPayers(_, _, _)
InsertPayers(d, e, ps) ==
    IF ps = <<>> THEN d ELSE InsertPayers(CreatePayer(d, e, ps[1]), e, Tail(ps))

RECURSIVE InsertSplits(_, _, _, _)
InsertSplits(d, e, ss, i) ==
    IF ss = <<>> THEN d ELSE InsertSplits(CreateSplit(d, e, i, ss[1]), e, Tail(ss), i + 1)

RECURSIVE InsertItems(_, _, _, _)
InsertItems(d, e, its, i) ==
    IF its = <<>> THEN d ELSE InsertItems(CreateReceiptItem(d, e, i, its[1]), e, Tail(its), i + 1)

Front(s) == SubSeq(s, 1, Len(s) - 1)

\* ------------------------------------------------------------------ transactions

\* What the store can be made to do to one transaction: nothing, refuse Begin,
\* fail the statement of one kind, refuse Commit, or panic inside the unit of work.
Faults == {"none", "begin", "expense", "payer", "split", "item", "commit", "panic"}
GroupFaults == {"none", "begin", "group", "member", "commit", "panic"}

NoTx == [begun |-> FALSE, fn |-> "not_run", commit |-> FALSE, rollback |-> FALSE,
         panic |-> FALSE, err |-> "nil"]

\* A variant of WithTx that commits whatever the unit of work wrote.
WithTxNoRollback(d, fault, r) ==
    IF fault = "begin"
    THEN [db |-> d, tx |-> [NoTx EXCEPT !.err = "begin"]]
    ELSE [db |-> r.db,
          tx |-> [begun |-> TRUE, fn |-> r.out, commit |-> TRUE, rollback |-> FALSE,
                  panic |-> r.out = "panic", err |-> r.out]]

\* A variant of WithTx whose deferred handler forgets the rollback on a panic.
WithTxPanicLeak(d, fault, r) ==
    IF fault = "begin"
    THEN [db |-> d, tx |-> [NoTx EXCEPT !.err = "begin"]]
    ELSE IF r.out = "panic"
    THEN [db |-> d,
          tx |-> [begun |-> TRUE, fn |-> "panic", commit |-> FALSE, rollback |-> FALSE,
                  panic |-> TRUE, err |-> "panic"]]
    ELSE IF r.out # "nil"
    THEN [db |-> d,
          tx |-> [begun |-> TRUE, fn |-> r.out, commit |-> FALSE, rollback |-> TRUE,
                  panic |-> FALSE, err |-> r.out]]
    ELSE [db |-> IF fault = "commit" THEN d ELSE r.db,
          tx |-> [begun |-> TRUE, fn |-> "nil", commit |-> TRUE, rollback |-> FALSE,
                  panic |-> FALSE, err |-> IF fault = "commit" THEN "commit" ELSE "nil"]]

\* DB.WithTx: d is the committed store, r = [db, out] is what the unit of work
\* wrote inside the transaction and what it returned ("nil", an error, "panic").
\* The result is the committed store afterwards and the calls WithTx made.
WithTx(d, fault, r) ==
    IF fault = "begin"
    THEN \* Pool.Begin failed: the unit of work never runs
         [db |-> d, tx |-> [NoTx EXCEPT !.err = "begin"]]
    ELSE IF r.out = "panic"
    THEN \* recover(): Rollback, then panic(p)
         [db |-> d,
          tx |-> [begun |-> TRUE, fn |-> "panic", commit |-> FALSE, rollback |-> TRUE,
                  panic |-> TRUE, err |-> "panic"]]
    ELSE IF r.out # "nil"
    THEN \* fn returned err: the deferred handler rolls back, err is returned as is
         [db |-> d,
          tx |-> [begun |-> TRUE, fn |-> r.out, commit |-> FALSE, rollback |-> TRUE,
                  panic |-> FALSE, err |-> r.out]]
    ELSE \* fn returned nil: Commit; a failed Commit persists nothing
         [db |-> IF fault = "commit" THEN d ELSE r.db,
          tx |-> [begun |-> TRUE, fn |-> "nil", commit |-> TRUE, rollback |-> FALSE,
                  panic |-> FALSE, err |-> IF fault = "commit" THEN "commit" ELSE "nil"]]

\* ------------------------------------------------------------------ expense service

\* expenseService.validateExpenseAmounts: the sums and the total are rounded to
\* cents before they are compared
validateExpenseAmounts(total, payers, splits) ==
    LET roundedTotalPaid == Round2(SumSeq(payers))
        roundedTotalAmount == Round2(total)
        roundedTotalSplit == Round2(SumSeq(splits))
    IN  IF Abs(roundedTotalPaid - roundedTotalAmount) > AmountTolerance
        THEN "amount_mismatch_payer"
        ELSE IF Abs(roundedTotalSplit - roundedTotalAmount) > AmountTolerance
        THEN "amount_mismatch_split"
        ELSE "nil"

\* The statements a unit of work issues after the expense row is written:
\* payers, then splits, then receipt items.  A fault fails the last statement of
\* its kind, after the earlier ones were executed inside the transaction.
WriteRows(d, e, payers, splits, items, fault) ==
    IF fault = "panic" THEN [db |-> d, out |-> "panic"]
    ELSE IF fault = "payer" /\ payers # <<>>
    THEN [db |-> InsertPayers(d, e, Front(payers)), out |-> "db_error"]
    ELSE LET d2 == InsertPayers(d, e, payers) IN
    IF fault = "split" /\ splits # <<>>
    THEN [db |-> InsertSplits(d2, e, Front(splits), 1), out |-> "db_error"]
    ELSE LET d3 == InsertSplits(d2, e, splits, 1) IN
    IF fault = "item" /\ items # <<>>
    THEN [db |-> InsertItems(d3, e, Front(items), 1), out |-> "db_error"]
    ELSE [db |-> InsertItems(d3, e, items, 1), out |-> "nil"]

\* The unit of work of expenseService.Create
CreateFn(d, e, row, payers, splits, items, fault) ==
    IF fault = "expense" THEN [db |-> d, out |-> "db_error"]
    ELSE WriteRows(InsertExpense(d, e, row), e, payers, splits, items, fault)

\* The unit of work of expenseService.Update: the row, then payers, splits and
\* receipt items are each deleted and written again
UpdateFn(d, e, row, payers, splits, items, fault) ==
    IF fault = "expense" THEN [db |-> d, out |-> "db_error"]
    ELSE WriteRows(DeleteReceiptItems(DeleteSplits(DeletePayers(UpdateExpense(d, e, row), e), e), e),
                   e, payers, splits, items, fault)

\* uuid.New(): an id no row uses
FreshExpense(d) ==
    CHOOSE e \in ExpenseIds \ DOMAIN d.expenses :
        \A f \in ExpenseIds \ DOMAIN d.expenses : e <= f

P(u, a) == [user |-> u, amount |-> a]

\* Request bodies: totals, payer lists and split lists that agree, that differ by
\* a cent, that differ by less than a cent, and that name one user twice.
Totals == {15, 20}
PayerLists == {<<>>, <<P("u1", 20)>>, <<P("u1", 14)>>,
               <<P("u1", 10), P("p1", 10)>>, <<P("u1", 10), P("u1", 10)>>}
SplitLists == {<<>>, <<P("u2", 20)>>, <<P("p1", 14)>>,
               <<P("u1", 10), P("p1", 10)>>, <<P("u1", 14), P("p1", 4)>>}

Req(t, ps, pb, ss, its, c) ==
    [total |-> t, payers |-> ps, paidBy |-> pb, splits |-> ss, items |-> its, currency |-> c]

Requests ==
    {Req(t, ps, NULL, ss, <<>>, "INR") : t \in Totals, ps \in PayerLists, ss \in SplitLists}
    \cup {Req(20, <<>>, pb, <<P("u2", 20)>>, its, c) :
            pb \in {NULL, "p1"}, its \in {<<>>, <<{"u1", "u2"}, {"p1"}>>}, c \in Currencies}

Result(op, err) ==
    [op |-> op, err |-> err, tx |-> NoTx, group |-> NULL,
     payerOff |-> FALSE, splitOff |-> FALSE, user |-> NULL, target |-> NULL,
     caller |-> NULL, data |-> {}, cause |-> "nil", comment |-> 0, emoji |-> NULL]

ResultBy(op, err, caller) == [Result(op, err) EXCEPT !.caller = caller]

\* What the request says, before validateExpenseAmounts rounds anything
PayerOff(total, payers) == Abs(SumSeq(payers) - total) > AmountTolerance
SplitOff(total, splits) == Abs(SumSeq(splits) - total) > AmountTolerance

\* expenseService.Create
ExpenseCreate(caller, g, req, fault) ==
    /\ ExpenseIds \ DOMAIN db.expenses # {}
    /\ LET e == FreshExpense(db)
           paidBy == IF req.payers = <<>> /\ req.paidBy = NULL THEN caller ELSE req.paidBy
           payers == IF req.payers = <<>> THEN <<P(paidBy, req.total)>> ELSE req.payers
           row == [group |-> g, paidBy |-> paidBy, total |-> req.total,
                   currency |-> req.currency, category |-> "EXPENSE"]
           v == validateExpenseAmounts(req.total, payers, req.splits)
           res == [ResultBy("ExpenseCreate", "nil", caller) EXCEPT
                      !.group = g,
                      !.payerOff = PayerOff(req.total, payers),
                      !.splitOff = SplitOff(req.total, req.splits)]
       IN  \/ /\ ~IsMember(db, g, caller)
              /\ last' = [ResultBy("ExpenseCreate", "not_group_member", caller) EXCEPT
                             !.group = g]
              /\ db' = db
           \/ /\ IsMember(db, g, caller)
              /\ v # "nil"
              /\ last' = [res EXCEPT !.err = v]
              /\ db' = db
           \/ /\ IsMember(db, g, caller)
              /\ v = "nil"
              /\ LET t == WithTx(db, fault,
                                  CreateFn(db, e, row, payers, req.splits, req.items, fault))
                 IN  /\ db' = t.db
                     /\ last' = [res EXCEPT !.err = t.tx.err, !.tx = t.tx]
    /\ UNCHANGED <<auxVars, settleVars, claimVars>>

\* expenseService.Update
ExpenseUpdate(caller, e, req, fault) ==
    /\ \/ /\ e \notin DOMAIN db.expenses
          /\ last' = [ResultBy("ExpenseUpdate", "expense_not_found", caller) EXCEPT
                         !.group = NULL]
          /\ db' = db
       \/ /\ e \in DOMAIN db.expenses
          /\ LET existing == db.expenses[e]
                 g == existing.group
                 paidBy == IF req.payers = <<>> /\ req.paidBy = NULL
                           THEN existing.paidBy ELSE req.paidBy
                 payers == IF req.payers = <<>> /\ paidBy # NULL
                           THEN <<P(paidBy, req.total)>> ELSE req.payers
                 row == [group |-> g, paidBy |-> paidBy, total |-> req.total,
                         currency |-> req.currency, category |-> existing.category]
                 v == validateExpenseAmounts(req.total, payers, req.splits)
                 res == [ResultBy("ExpenseUpdate", "nil", caller) EXCEPT
                            !.group = g,
                            !.payerOff = PayerOff(req.total, payers),
                            !.splitOff = SplitOff(req.total, req.splits)]
             IN  \/ /\ ~IsMember(db, g, caller)
                    /\ last' = [ResultBy("ExpenseUpdate", "not_group_member", caller) EXCEPT
                                   !.group = g]
                    /\ db' = db
                 \/ /\ IsMember(db, g, caller)
                    /\ v # "nil"
                    /\ last' = [res EXCEPT !.err = v]
                    /\ db' = db
                 \/ /\ IsMember(db, g, caller)
                    /\ v = "nil"
                    /\ LET t == WithTx(db, fault,
                                        UpdateFn(db, e, row, payers, req.splits, req.items, fault))
                       IN  /\ db' = t.db
                           /\ last' = [res EXCEPT !.err = t.tx.err, !.tx = t.tx]
    /\ UNCHANGED <<auxVars, settleVars, claimVars>>

\* ------------------------------------------------------------------ group service

\* groups.default_currency: DEFAULT 'INR'
DefaultCurrency(g) == "INR"

\* The unit of work of CreateSettlement and of CreateRepayment: the expense row,
\* its one payer and its one split
PaymentFn(d, e, row, from, to, amount, fault) ==
    IF fault = "expense" THEN [db |-> d, out |-> "db_error"]
    ELSE WriteRows(InsertExpense(d, e, row), e, <<P(from, amount)>>, <<P(to, amount)>>, <<>>, fault)

SettleAmounts == {0, 10}

\* groupService.CreateSettlement
CreateSettlement(g, requester, from, to, amount, fault) ==
    /\ ExpenseIds \ DOMAIN db.expenses # {}
    /\ LET e == FreshExpense(db)
           row == [group |-> g, paidBy |-> from, total |-> amount,
                   currency |-> DefaultCurrency(g), category |-> "PAYMENT"]
           res == [Result("CreateSettlement", "nil") EXCEPT
                      !.group = g]
           early == IF amount <= 0 THEN "invalid_amount"
                    ELSE IF ~IsMember(db, g, requester) THEN "not_group_member"
                    ELSE IF ~IsMember(db, g, from) THEN "not_group_member"
                    ELSE IF ~IsMember(db, g, to) THEN "not_group_member"
                    ELSE IF from = to THEN "cannot_settle_to_self"
                    ELSE "nil"
       IN  \/ /\ early # "nil"
              /\ last' = [Result("CreateSettlement", early) EXCEPT !.group = g]
              /\ db' = db
           \/ /\ early = "nil"
              /\ LET t == WithTx(db, fault, PaymentFn(db, e, row, from, to, amount, fault))
                 IN  /\ db' = t.db
                     /\ last' = [res EXCEPT !.err = t.tx.err, !.tx = t.tx]
    /\ UNCHANGED <<auxVars, settleVars, claimVars>>

\* groupService.CreateRepayment
CreateRepayment(g, payer, receiver, amount, fault) ==
    /\ ExpenseIds \ DOMAIN db.expenses # {}
    /\ LET e == FreshExpense(db)
           row == [group |-> g, paidBy |-> payer, total |-> amount,
                   currency |-> DefaultCurrency(g), category |-> "REPAYMENT"]
           res == [Result("CreateRepayment", "nil") EXCEPT
                      !.group = g]
           early == IF ~IsMember(db, g, payer) THEN "not_group_member"
                    ELSE IF ~IsMember(db, g, receiver) THEN "not_group_member"
                    ELSE "nil"
       IN  \/ /\ early # "nil"
              /\ last' = [Result("CreateRepayment", early) EXCEPT !.group = g]
              /\ db' = db
           \/ /\ early = "nil"
              /\ LET t == WithTx(db, fault, PaymentFn(db, e, row, payer, receiver, amount, fault))
                 IN  /\ db' = t.db
                     /\ last' = [res EXCEPT !.err = t.tx.err, !.tx = t.tx]
    /\ UNCHANGED <<auxVars, settleVars, claimVars>>

\* expenseRepository.GetGroupMemberBalances: one entry per (user, currency) that
\* has a payer row or a split row in an expense of the group,
\* balance = SUM(amount_paid) - SUM(amount)
GetGroupMemberBalances(d, g) ==
    LET es(c) == {e \in DOMAIN d.expenses : d.expenses[e].group = g /\ d.expenses[e].currency = c}
        paid(u, c) == {r \in d.payers : r.expense \in es(c) /\ r.user = u}
        owed(u, c) == {r \in d.splits : r.expense \in es(c) /\ r.user = u}
    IN  {[user |-> u, currency |-> c, balance |-> SumRows(paid(u, c)) - SumRows(owed(u, c))] :
            <<u, c>> \in {x \in Users \X Currencies : paid(x[1], x[2]) \cup owed(x[1], x[2]) # {}}}

\* A variant of calculateBalances that counts a balance of exactly the threshold as a debt.
calculateBalancesAtThreshold(d, g) ==
    {[user |-> b.user, owed |-> Round2(b.balance)] :
        b \in {x \in GetGroupMemberBalances(d, g) : Abs(Round2(x.balance)) >= BalanceThreshold}}

\* groupService.calculateBalances: the (user, currency) balances whose rounded
\* magnitude exceeds the threshold
calculateBalances(d, g) ==
    {[user |-> b.user, owed |-> Round2(b.balance)] :
        b \in {x \in GetGroupMemberBalances(d, g) : Abs(Round2(x.balance)) > BalanceThreshold}}

\* DELETE FROM groups: memberships and expenses cascade, and payers, splits and
\* receipt items cascade from the expenses
\* comments.expense_id and comment_reactions.comment_id: ON DELETE CASCADE
DropComments(d, gone) ==
    LET kept == {c \in DOMAIN d.comments : d.comments[c].expense \notin gone}
    IN  [d EXCEPT !.comments = [c \in kept |-> d.comments[c]],
                  !.reactions = {r \in d.reactions : r.comment \in kept}]

DeleteGroupRow(d, g) ==
    LET gone == {e \in DOMAIN d.expenses : d.expenses[e].group = g}
    IN  [DropComments(d, gone) EXCEPT !.groups = d.groups \ {g},
                  !.names = [x \in d.groups \ {g} |-> d.names[x]],
                  !.members = {m \in d.members : m[1] # g},
                  !.expenses = [e \in DOMAIN d.expenses \ gone |-> d.expenses[e]],
                  !.payers = {r \in d.payers : r.expense \notin gone},
                  !.splits = {r \in d.splits : r.expense \notin gone},
                  !.items = {r \in d.items : r.expense \notin gone}]

\* groupService.Delete
GroupDelete(caller, g) ==
    /\ \/ /\ ~IsMember(db, g, caller)
          /\ last' = [ResultBy("GroupDelete", "not_group_member", caller) EXCEPT !.group = g]
          /\ db' = db
       \/ /\ IsMember(db, g, caller)
          /\ calculateBalances(db, g) # {}
          /\ last' = [ResultBy("GroupDelete", "cannot_delete_group_with_debts", caller) EXCEPT
                         !.group = g]
          /\ db' = db
       \/ /\ IsMember(db, g, caller)
          /\ calculateBalances(db, g) = {}
          /\ last' = [ResultBy("GroupDelete", "nil", caller) EXCEPT !.group = g]
          /\ db' = DeleteGroupRow(db, g)
    /\ UNCHANGED <<auxVars, settleVars, claimVars>>

\* users.email: placeholders have none
Emails == {"u1@x", "u2@x", "nobody@x"}
GetByEmail(email) ==
    IF email = "u1@x" THEN "u1" ELSE IF email = "u2@x" THEN "u2" ELSE NULL

EmailLists == {<<>>, <<"u2@x">>, <<"u1@x", "u2@x">>, <<"nobody@x">>, <<"u2@x", "nobody@x">>}

\* groupRepository.AddMember: ON CONFLICT (group_id, user_id) DO NOTHING
AddMemberRow(d, g, u) == [d EXCEPT !.members = d.members \cup {<<g, u>>}]

\* The member loop of the unit of work of groupService.Create
RECURSIVE AddByEmails(_, _, _, _, _)
AddByEmails(d, g, caller, emails, fault) ==
    IF emails = <<>> THEN [db |-> d, out |-> "nil"]
    ELSE LET u == GetByEmail(emails[1]) IN
         IF u = NULL THEN [db |-> d, out |-> "user_not_found_by_email"]
         ELSE IF u = caller THEN AddByEmails(d, g, caller, Tail(emails), fault)
         ELSE IF fault = "member" /\ Len(emails) = 1 THEN [db |-> d, out |-> "db_error"]
         ELSE AddByEmails(AddMemberRow(d, g, u), g, caller, Tail(emails), fault)

\* The unit of work of groupService.Create
GroupCreateFn(d, g, caller, emails, fault) ==
    IF fault = "group" THEN [db |-> d, out |-> "db_error"]
    ELSE LET d1 == AddMemberRow([d EXCEPT !.groups = d.groups \cup {g},
                                          !.names = [x \in d.groups \cup {g} |->
                                                        IF x = g THEN "n0" ELSE d.names[x]]],
                                g, caller) IN
         IF fault = "panic" THEN [db |-> d1, out |-> "panic"]
         ELSE AddByEmails(d1, g, caller, emails, fault)

FreshGroup(d) == CHOOSE g \in GroupIds : g \notin d.groups

\* groupService.Create
GroupCreate(caller, emails, fault) ==
    /\ GroupIds \ db.groups # {}
    /\ LET g == FreshGroup(db)
           t == WithTx(db, fault, GroupCreateFn(db, g, caller, emails, fault))
       IN  /\ db' = t.db
           /\ last' = [Result("GroupCreate", t.tx.err) EXCEPT !.tx = t.tx, !.group = g]
    /\ UNCHANGED <<auxVars, settleVars, claimVars>>

\* ------------------------------------------------------------------ user service

\* userRepository.ClaimPlaceholder: UPDATE users SET claimed_by = $1
\* WHERE id = $2 AND is_placeholder = TRUE
ClaimPlaceholderRow(d, p, claimer) ==
    IF p \in Placeholders THEN [d EXCEPT !.claimedBy[p] = claimer] ELSE d

\* userRepository.GetUnclaimedPlaceholders: is_placeholder = TRUE AND claimed_by IS NULL
GetUnclaimedPlaceholders(d) == {p \in Placeholders : d.claimedBy[p] = NULL}

\* UPDATE expense_payers SET user_id = to WHERE user_id = from, under
\* UNIQUE (expense_id, user_id): the statement fails as a whole when the target
\* already pays for one of the expenses
TransferPayers(d, from, to) ==
    IF from # to /\ \E r \in d.payers, q \in d.payers :
                        r.user = from /\ q.user = to /\ r.expense = q.expense
    THEN [db |-> d, out |-> "db_error"]
    ELSE [db |-> [d EXCEPT !.payers = {IF r.user = from THEN [r EXCEPT !.user = to] ELSE r :
                                          r \in d.payers}],
          out |-> "nil"]

\* UPDATE expense_splits SET user_id = to WHERE user_id = from
TransferSplits(d, from, to) ==
    [d EXCEPT !.splits = {IF r.user = from THEN [r EXCEPT !.user = to] ELSE r : r \in d.splits}]

\* A variant of the third statement of TransferExpenses that updates nothing.
TransferPaidByNone(d, from, to) == d

\* UPDATE expenses SET paid_by_user_id = to WHERE paid_by_user_id = from
TransferPaidBy(d, from, to) ==
    [d EXCEPT !.expenses = [e \in DOMAIN d.expenses |->
                               IF d.expenses[e].paidBy = from
                               THEN [d.expenses[e] EXCEPT !.paidBy = to]
                               ELSE d.expenses[e]]]

\* The checks ClaimPlaceholder and AssignPlaceholder make on the row they read
ClaimCheck(d, p) ==
    IF p \notin Placeholders THEN "not_a_placeholder"
    ELSE IF d.claimedBy[p] # NULL THEN "already_claimed"
    ELSE "nil"

Slots == {1, 2}
Targets == Users \cup {"nobody"}

Idle == [op |-> "none", user |-> NULL, p |-> NULL, pc |-> "idle", err |-> "nil",
         before |-> InitDb]

Quiet == \A s \in Slots : reqs[s].pc \in {"idle", "done"}

\* A request returns: its slot records the outcome
Return(s, r, err) ==
    /\ reqs' = [reqs EXCEPT ![s] = [r EXCEPT !.pc = "done", !.err = err]]
    /\ wins' = IF err = "nil" /\ r.p \in Placeholders /\ wins[r.p] < MaxWins
               THEN [wins EXCEPT ![r.p] = @ + 1] ELSE wins

\* userService.ClaimPlaceholder, up to its first write: GetByID and the two checks
ClaimPlaceholder(s, user, p) ==
    /\ reqs[s].pc \in {"idle", "done"}
    /\ LET r == [op |-> "ClaimPlaceholder", user |-> user, p |-> p, pc |-> "claim",
                 err |-> "nil", before |-> db]
           c == ClaimCheck(db, p)
       IN  IF c # "nil" THEN Return(s, r, c)
           ELSE reqs' = [reqs EXCEPT ![s] = r] /\ wins' = wins
    /\ UNCHANGED <<auxVars, db, last, settleVars>>

\* userService.AssignPlaceholder, up to its first write: GetByID, the two checks
\* and the lookup of the target, which is only required to exist
AssignPlaceholder(s, p, target) ==
    /\ reqs[s].pc \in {"idle", "done"}
    /\ LET r == [op |-> "AssignPlaceholder", user |-> target, p |-> p, pc |-> "claim",
                 err |-> "nil", before |-> db]
           c == ClaimCheck(db, p)
       IN  IF c # "nil" THEN Return(s, r, c)
           ELSE IF target \notin Users THEN Return(s, r, "target_not_found")
           ELSE reqs' = [reqs EXCEPT ![s] = r] /\ wins' = wins
    /\ UNCHANGED <<auxVars, db, last, settleVars>>

\* The call of userRepository.ClaimPlaceholder by either operation
ClaimWrite(s) ==
    /\ reqs[s].pc = "claim"
    /\ db' = ClaimPlaceholderRow(db, reqs[s].p, reqs[s].user)
    /\ reqs' = [reqs EXCEPT ![s].pc = "payers"]
    /\ UNCHANGED <<auxVars, last, settleVars, wins>>

\* expenseRepository.TransferExpenses: three statements outside any transaction;
\* the first error ends the request with the earlier writes in place
TransferExpenses(s) ==
    LET r == reqs[s] IN
    \/ /\ r.pc = "payers"
       /\ LET t == TransferPayers(db, r.p, r.user)
          IN  /\ db' = t.db
              /\ IF t.out # "nil" THEN Return(s, r, t.out)
                 ELSE reqs' = [reqs EXCEPT ![s].pc = "splits"] /\ wins' = wins
       /\ UNCHANGED <<auxVars, last, settleVars>>
    \/ /\ r.pc = "splits"
       /\ db' = TransferSplits(db, r.p, r.user)
       /\ reqs' = [reqs EXCEPT ![s].pc = "paidby"]
       /\ UNCHANGED <<auxVars, last, settleVars, wins>>
    \/ /\ r.pc = "paidby"
       /\ db' = TransferPaidBy(db, r.p, r.user)
       /\ Return(s, r, "nil")
       /\ UNCHANGED <<auxVars, last, settleVars>>

\* ------------------------------------------------------------------ settlement service

SettleUsers == {"A", "B", "C"}

\* A variant of the regrouping that nets a user's currencies into each currency.
UserBalancesMixed(bal, c) ==
    [u \in SettleUsers |-> bal[u]["INR"] + bal[u]["USD"]]

\* CalculateSettlements regroups user -> currency -> balance by currency
UserBalances(bal, c) == [u \in SettleUsers |-> bal[u][c]]

\* The first loop of calculateSettlementsForCurrency: who is pushed on which heap
IsCreditor(roundedBalance) == roundedBalance > BalanceThreshold
IsDebtor(roundedBalance) == roundedBalance < -BalanceThreshold

PersonBalance(u, b) == [userID |-> u, balance |-> b]

BuildHeaps(ub) ==
    [creditor |-> {PersonBalance(u, Round2(ub[u])) : u \in {x \in SettleUsers : IsCreditor(Round2(ub[x]))}},
     debtor |-> {PersonBalance(u, Abs(Round2(ub[u]))) : u \in {x \in SettleUsers : IsDebtor(Round2(ub[x]))}}]

\* heap.Pop on a balanceHeap whose Less is ">": a largest balance; which of two
\* equal balances comes out depends on the iteration order of the map
PopMax(h) == {x \in h : \A y \in h : x.balance >= y.balance}

\* A variant of the amount of one settlement that settles half of what can be settled.
SettleAmountHalf(creditor, debtor) == Min(creditor.balance, debtor.balance) \div 2

\* A variant of the amount of one settlement that takes the larger balance.
SettleAmountMax(creditor, debtor) ==
    IF creditor.balance > debtor.balance THEN creditor.balance ELSE debtor.balance

\* amount := math.Min(creditor.balance, debtor.balance)
SettleAmount(creditor, debtor) == Min(creditor.balance, debtor.balance)

Edge(from, to, amount, c) == [from |-> from, to |-> to, amount |-> amount, currency |-> c]

NoStep == [currency |-> NULL, creditor |-> PersonBalance(NULL, 0), debtor |-> PersonBalance(NULL, 0),
           amount |-> 0, emitted |-> FALSE, iter |-> 0]

\* CalculateSettlements picks the next currency of its map and
\* calculateSettlementsForCurrency fills the two heaps
PushBalances(c) ==
    /\ phase[c] = "init"
    /\ \A o \in Currencies : phase[o] # "loop"
    /\ heaps' = [heaps EXCEPT ![c] = BuildHeaps(UserBalances(balances, c))]
    /\ phase' = [phase EXCEPT ![c] = "loop"]
    /\ UNCHANGED <<auxVars, db, last, balances, settlements, step, claimVars>>

\* One iteration of the loop of calculateSettlementsForCurrency
SettleStep(c) ==
    /\ phase[c] = "loop"
    /\ heaps[c].creditor # {}
    /\ heaps[c].debtor # {}
    /\ \E creditor \in PopMax(heaps[c].creditor), debtor \in PopMax(heaps[c].debtor) :
          LET amount == SettleAmount(creditor, debtor)
              roundedAmount == Round2(amount)
              cb == Round2(creditor.balance - amount)
              dbal == Round2(debtor.balance - amount)
              ch == heaps[c].creditor \ {creditor}
              dh == heaps[c].debtor \ {debtor}
          IN  /\ settlements' = IF roundedAmount > BalanceThreshold
                                THEN Append(settlements,
                                            Edge(debtor.userID, creditor.userID, roundedAmount, c))
                                ELSE settlements
              /\ heaps' = [heaps EXCEPT ![c] =
                              [creditor |-> IF cb > BalanceThreshold
                                            THEN ch \cup {PersonBalance(creditor.userID, cb)} ELSE ch,
                               debtor |-> IF dbal > BalanceThreshold
                                          THEN dh \cup {PersonBalance(debtor.userID, dbal)} ELSE dh]]
              /\ step' = [currency |-> c, creditor |-> creditor, debtor |-> debtor,
                          amount |-> roundedAmount, emitted |-> roundedAmount > BalanceThreshold,
                          iter |-> IF step.currency = c THEN step.iter + 1 ELSE 1]
    /\ UNCHANGED <<auxVars, db, last, balances, phase, claimVars>>

\* The loop ends when a heap is empty; the edges join allSettlements
ReturnSettlements(c) ==
    /\ phase[c] = "loop"
    /\ heaps[c].creditor = {} \/ heaps[c].debtor = {}
    /\ phase' = [phase EXCEPT ![c] = "done"]
    /\ UNCHANGED <<auxVars, db, last, balances, heaps, settlements, step, claimVars>>

\* ------------------------------------------------------------------ friend service

\* apperrors.IsDuplicateError: the message names a duplicate key or a unique constraint
IsDuplicateError(err) == err \in {"duplicate_key", "unique_constraint"}

\* friendRepository.Add: INSERT INTO friends ... ON CONFLICT DO NOTHING, under
\* the table's CHECK (user_id != friend_id)
FriendAdd(d, u, f) ==
    IF u = f THEN [db |-> d, err |-> "check_violation"]
    ELSE [db |-> [d EXCEPT !.friends = d.friends \cup {<<u, f>>}], err |-> "nil"]

\* friendRepository.Remove: DELETE FROM friends WHERE user_id = $1 AND friend_id = $2
FriendRemove(d, u, f) == [d EXCEPT !.friends = d.friends \ {<<u, f>>}]

AddFriendByEmailNoSelfCheck(caller, email) ==
    /\ LET friend == GetByEmail(email)
           res == [Result("AddFriendByEmail", "nil") EXCEPT !.caller = caller, !.target = friend]
           r == FriendAdd(db, caller, friend)
       IN  IF friend = NULL
           THEN /\ last' = [res EXCEPT !.err = "user_not_found_by_email"]
                /\ db' = db
           ELSE /\ db' = r.db
                /\ last' = [res EXCEPT !.err = IF r.err = "nil" THEN "nil"
                                               ELSE IF IsDuplicateError(r.err)
                                               THEN "already_friends" ELSE "db_error"]
    /\ UNCHANGED <<auxVars, settleVars, claimVars>>

\* friendService.AddFriendByEmail
AddFriendByEmail(caller, email) ==
    /\ LET friend == GetByEmail(email)
           res == [Result("AddFriendByEmail", "nil") EXCEPT !.caller = caller, !.target = friend]
           r == FriendAdd(db, caller, friend)
       IN  IF friend = NULL
           THEN /\ last' = [res EXCEPT !.err = "user_not_found_by_email"]
                /\ db' = db
           ELSE IF friend = caller
           THEN /\ last' = [res EXCEPT !.err = "cannot_add_self"]
                /\ db' = db
           ELSE /\ db' = r.db
                /\ last' = [res EXCEPT !.err = IF r.err = "nil" THEN "nil"
                                               ELSE IF IsDuplicateError(r.err)
                                               THEN "already_friends" ELSE "db_error"]
    /\ UNCHANGED <<auxVars, settleVars, claimVars>>

\* friendService.RemoveFriend
RemoveFriend(caller, friend) ==
    /\ db' = FriendRemove(db, caller, friend)
    /\ last' = [Result("RemoveFriend", "nil") EXCEPT !.caller = caller, !.target = friend]
    /\ UNCHANGED <<auxVars, settleVars, claimVars>>

\* ------------------------------------------------------------------ comment service

CommentIds == 1..MaxComments
Emojis == {"+1"}

\* commentService.checkAccess: the expense must exist and the user be a member of its group
checkAccess(d, e, u) ==
    IF e \notin DOMAIN d.expenses THEN "expense_not_found"
    ELSE IF ~IsMember(d, d.expenses[e].group, u) THEN "not_group_member"
    ELSE "nil"

GroupOfExpense(d, e) == IF e \in DOMAIN d.expenses THEN d.expenses[e].group ELSE NULL

\* commentRepository.CreateComment: INSERT ... SELECT ... WHERE EXISTS (the
\* expense joined with a membership of the user)
CreateComment(d, c, e, u) ==
    IF checkAccess(d, e, u) # "nil" THEN [db |-> d, err |-> "no_rows"]
    ELSE [db |-> [d EXCEPT !.comments =
                     [x \in DOMAIN d.comments \cup {c} |->
                         IF x = c THEN [expense |-> e, author |-> u] ELSE d.comments[x]]],
          err |-> "nil"]

\* commentRepository.DeleteComment, with the cascade to comment_reactions
DeleteCommentRow(d, c) ==
    [d EXCEPT !.comments = [x \in DOMAIN d.comments \ {c} |-> d.comments[x]],
              !.reactions = {r \in d.reactions : r.comment # c}]

ReactionKey(r) == <<r.comment, r.user, r.emoji>>

\* A plain INSERT into comment_reactions: every call stores one more row
ReactionAddNoUnique(d, c, u, emoji) ==
    LET old == {r \in d.reactions : ReactionKey(r) = <<c, u, emoji>>}
        n == IF old = {} THEN 0 ELSE (CHOOSE r \in old : TRUE).copies
    IN  [db |-> [d EXCEPT !.reactions = (d.reactions \ old) \cup
                    {[comment |-> c, user |-> u, emoji |-> emoji, copies |-> n + 1]}],
         err |-> "nil"]

\* commentRepository.AddReaction: a plain INSERT under UNIQUE (comment_id,
\* user_id, emoji); copies counts the rows stored under one key
ReactionAdd(d, c, u, emoji) ==
    IF \E r \in d.reactions : ReactionKey(r) = <<c, u, emoji>>
    THEN [db |-> d, err |-> "duplicate_key"]
    ELSE [db |-> [d EXCEPT !.reactions = d.reactions \cup
                     {[comment |-> c, user |-> u, emoji |-> emoji, copies |-> 1]}],
          err |-> "nil"]

\* commentRepository.RemoveReaction: DELETE ... WHERE comment_id, user_id, emoji
ReactionRemove(d, c, u, emoji) ==
    [d EXCEPT !.reactions = {r \in d.reactions : ReactionKey(r) # <<c, u, emoji>>}]

FreshComment(d) == CHOOSE c \in CommentIds \ DOMAIN d.comments :
                       \A x \in CommentIds \ DOMAIN d.comments : c <= x

\* commentService.AddComment
AddComment(caller, e) ==
    /\ CommentIds \ DOMAIN db.comments # {}
    /\ LET c == FreshComment(db)
           acc == checkAccess(db, e, caller)
           r == CreateComment(db, c, e, caller)
           res == [Result("AddComment", acc) EXCEPT
                      !.caller = caller, !.group = GroupOfExpense(db, e)]
       IN  IF acc # "nil"
           THEN /\ last' = res
                /\ db' = db
           ELSE /\ db' = r.db
                /\ last' = [res EXCEPT !.err = IF r.err = "nil" THEN "nil" ELSE "db_error",
                                       !.cause = r.err, !.comment = c,
                                       !.data = IF r.err = "nil" THEN {res.group} ELSE {}]
    /\ UNCHANGED <<auxVars, settleVars, claimVars>>

\* commentService.GetComments
GetComments(caller, e) ==
    /\ LET acc == checkAccess(db, e, caller)
           res == [Result("GetComments", acc) EXCEPT
                      !.caller = caller, !.group = GroupOfExpense(db, e)]
       IN  last' = [res EXCEPT !.data = IF acc = "nil" THEN {res.group} ELSE {}]
    /\ UNCHANGED <<auxVars, db, settleVars, claimVars>>

DeleteCommentNoAuthorCheck(caller, c) ==
    /\ LET res == [Result("DeleteComment", "nil") EXCEPT !.caller = caller, !.comment = c]
       IN  IF c \notin DOMAIN db.comments
           THEN /\ last' = [res EXCEPT !.err = "db_error", !.cause = "no_rows"]
                /\ db' = db
           ELSE /\ last' = res
                /\ db' = DeleteCommentRow(db, c)
    /\ UNCHANGED <<auxVars, settleVars, claimVars>>

\* commentService.DeleteComment
DeleteComment(caller, c) ==
    /\ LET res == [Result("DeleteComment", "nil") EXCEPT !.caller = caller, !.comment = c]
       IN  IF c \notin DOMAIN db.comments
           THEN /\ last' = [res EXCEPT !.err = "db_error", !.cause = "no_rows"]
                /\ db' = db
           ELSE IF db.comments[c].author # caller
           THEN /\ last' = [res EXCEPT !.err = "unauthorized"]
                /\ db' = db
           ELSE /\ last' = res
                /\ db' = DeleteCommentRow(db, c)
    /\ UNCHANGED <<auxVars, settleVars, claimVars>>

\* commentService.AddReaction
AddReaction(caller, c, emoji) ==
    /\ LET res == [Result("AddReaction", "nil") EXCEPT
                      !.caller = caller, !.comment = c, !.emoji = emoji]
       IN  IF c \notin DOMAIN db.comments
           THEN /\ last' = [res EXCEPT !.err = "db_error", !.cause = "no_rows"]
                /\ db' = db
           ELSE LET e == db.comments[c].expense
                    acc == checkAccess(db, e, caller)
                    r == ReactionAdd(db, c, caller, emoji)
                    gated == [res EXCEPT !.group = GroupOfExpense(db, e)]
                IN  IF acc # "nil"
                    THEN /\ last' = [gated EXCEPT !.err = acc]
                         /\ db' = db
                    ELSE /\ db' = r.db
                         /\ last' = [gated EXCEPT
                                        !.cause = r.err,
                                        !.err = IF r.err = "nil" \/ IsDuplicateError(r.err)
                                                THEN "nil" ELSE "db_error"]
    /\ UNCHANGED <<auxVars, settleVars, claimVars>>

\* commentService.RemoveReaction
RemoveReaction(caller, c, emoji) ==
    /\ db' = ReactionRemove(db, c, caller, emoji)
    /\ last' = [Result("RemoveReaction", "nil") EXCEPT
                   !.caller = caller, !.comment = c, !.emoji = emoji]
    /\ UNCHANGED <<auxVars, settleVars, claimVars>>

\* ------------------------------------------------------------------ membership-gated reads and member management

GroupNames == {"n0", "n1"}

\* A membership check that lets every caller through
RequireGroupMembershipAnyone(d, g, u) == "nil"

\* RequireGroupMembership
RequireGroupMembership(d, g, u) == IF IsMember(d, g, u) THEN "nil" ELSE "not_group_member"

\* A handler that checks membership and then only reads the group's rows
GroupRead(op, caller, g) ==
    /\ LET acc == RequireGroupMembership(db, g, caller)
       IN  last' = [ResultBy(op, acc, caller) EXCEPT
                       !.group = g, !.data = IF acc = "nil" THEN {g} ELSE {}]
    /\ UNCHANGED <<auxVars, db, settleVars, claimVars>>

\* groupService.GetByID
GroupGetByID(caller, g) == GroupRead("GroupGetByID", caller, g)

\* groupService.GetTransactions
GetTransactions(caller, g) == GroupRead("GetTransactions", caller, g)

\* groupService.GetBalances
GetBalances(caller, g) == GroupRead("GetBalances", caller, g)

\* settlementService.CalculateSettlements, its membership check and its answer
CalculateSettlements(caller, g) == GroupRead("CalculateSettlements", caller, g)

\* expenseService.GetByGroupID
GetByGroupID(caller, g) == GroupRead("GetByGroupID", caller, g)

\* expenseService.GetByID
ExpenseGetByID(caller, e) ==
    /\ LET acc == checkAccess(db, e, caller)
       IN  last' = [ResultBy("ExpenseGetByID", acc, caller) EXCEPT
                       !.group = GroupOfExpense(db, e),
                       !.data = IF acc = "nil" THEN {GroupOfExpense(db, e)} ELSE {}]
    /\ UNCHANGED <<auxVars, db, settleVars, claimVars>>

\* groupService.Update
GroupUpdate(caller, g, name) ==
    /\ LET acc == RequireGroupMembership(db, g, caller)
           res == [ResultBy("GroupUpdate", acc, caller) EXCEPT !.group = g]
       IN  IF acc # "nil"
           THEN /\ last' = res
                /\ db' = db
           ELSE /\ db' = [db EXCEPT !.names[g] = name]
                /\ last' = [res EXCEPT !.data = {g}]
    /\ UNCHANGED <<auxVars, settleVars, claimVars>>

\* groupService.AddMember
AddMember(caller, g, email) ==
    /\ LET acc == RequireGroupMembership(db, g, caller)
           u == GetByEmail(email)
           res == [ResultBy("AddMember", acc, caller) EXCEPT !.group = g, !.target = u]
           \* the insert is ON CONFLICT DO NOTHING: it reports no duplicate
           repoErr == "nil"
       IN  IF acc # "nil"
           THEN /\ last' = [res EXCEPT !.target = NULL]
                /\ db' = db
           ELSE IF u = NULL
           THEN /\ last' = [res EXCEPT !.err = "user_not_found_by_email"]
                /\ db' = db
           ELSE /\ db' = AddMemberRow(db, g, u)
                /\ last' = [res EXCEPT !.err = IF repoErr = "nil" THEN "nil"
                                               ELSE IF IsDuplicateError(repoErr)
                                               THEN "already_member" ELSE "db_error"]
    /\ UNCHANGED <<auxVars, settleVars, claimVars>>

\* groupRepository.RemoveMember
RemoveMemberRow(d, g, u) == [d EXCEPT !.members = d.members \ {<<g, u>>}]

\* groupService.RemoveMember
RemoveMember(caller, g, member) ==
    /\ LET acc == RequireGroupMembership(db, g, caller)
           res == [ResultBy("RemoveMember", acc, caller) EXCEPT !.group = g, !.target = member]
       IN  IF acc # "nil"
           THEN /\ last' = res
                /\ db' = db
           ELSE IF \E b \in calculateBalances(db, g) :
                      b.user = member /\ Abs(b.owed) > BalanceThreshold
           THEN /\ last' = [res EXCEPT !.err = "cannot_remove_member_with_balance"]
                /\ db' = db
           ELSE /\ last' = res
                /\ db' = RemoveMemberRow(db, g, member)
    /\ UNCHANGED <<auxVars, settleVars, claimVars>>

\* ------------------------------------------------------------------ authentication middleware

\* SUPABASE_JWT_SECRET as configured: unset, a token pasted by mistake, a plain
\* secret, and a secret that is valid base64
Secrets == {"", "eyJhbGciOi", "s3cret", "czNjcmV0"}

\* base64.StdEncoding.DecodeString on the configured secrets
Base64Decode(x) == IF x = "czNjcmV0" THEN "s3cret" ELSE NULL

\* The keys the JWKS endpoint publishes, by kid
Jwks == {"k1", "k2"}

\* A bearer token: well-formed or not, its header's alg and kid, the key its
\* signature was made with, whether its time claims are valid, and its sub claim
Algs == {"HS256", "ES256", "RS256", "none"}
SignedWith == {<<"hs", "s3cret">>, <<"hs", "czNjcmV0">>, <<"hs", "guess">>,
               <<"es", "k1">>, <<"es", "k2">>, <<"es", "own">>}
Subs == {"string", "number", "absent"}
Tokens ==
    [form : {"jwt"}, alg : Algs, kid : {"", "k1", "k9"}, signedWith : SignedWith,
     fresh : BOOLEAN, sub : Subs]
    \cup {[form |-> "garbage", alg |-> "none", kid |-> "", signedWith |-> <<"hs", "guess">>,
           fresh |-> FALSE, sub |-> "absent"]}
NoToken == [form |-> "none", alg |-> "none", kid |-> "", signedWith |-> <<"hs", "guess">>,
            fresh |-> FALSE, sub |-> "absent"]

\* The Authorization header as strings.Split(header, " ") cuts it; "T" stands
\* for the text of the token the request carries
HeaderParts == {<<"">>, <<"Bearer">>, <<"Bearer", "">>, <<"Bearer", "T">>, <<"bearer", "T">>,
                <<"Basic", "T">>, <<"Bearer", "", "T">>, <<"Bearer", "T", "">>, <<"T">>}

\* getSupabasePublicKey: the keys it may return for a kid; none is an error
getSupabasePublicKey(kid, reachable) ==
    IF ~reachable THEN {}
    ELSE IF kid \in Jwks THEN {kid}
    ELSE IF kid = "" THEN Jwks
    ELSE {}

\* The key function handed to jwt.Parse: the keys it may return; none is an error
KeyFunc(secret, tok, reachable) ==
    IF secret = "" THEN {}
    ELSE IF secret \in {"eyJhbGciOi"} THEN {}
    ELSE IF tok.alg = "HS256"
    THEN {<<"hs", IF Base64Decode(secret) # NULL THEN Base64Decode(secret) ELSE secret>>}
    ELSE IF tok.alg = "ES256"
    THEN {<<"es", k>> : k \in getSupabasePublicKey(tok.kid, reachable)}
    ELSE {}

\* jwt.Parse with a key: the segments decode, the signature verifies under the
\* key with the header's method, and the time claims are valid
JwtParse(tok, key) ==
    IF tok.form # "jwt" THEN "malformed"
    ELSE IF tok.alg = "none" THEN "none_not_allowed"
    ELSE IF tok.alg \in {"HS256"} /\ (key[1] # "hs" \/ tok.signedWith # key)
    THEN "signature_invalid"
    ELSE IF tok.alg \in {"ES256", "RS256"} /\ (key[1] # "es" \/ tok.signedWith # key)
    THEN "signature_invalid"
    ELSE IF ~tok.fresh THEN "expired"
    ELSE "nil"

NoRequest == [secret |-> "s3cret", parts |-> <<>>, token |-> NoToken, status |-> 0,
              handled |-> FALSE, userId |-> NULL]

Answer(secret, parts, tok, status) ==
    [secret |-> secret, parts |-> parts, token |-> tok, status |-> status,
     handled |-> FALSE, userId |-> NULL]

\* A header check that takes any scheme word
HeaderFormAnyScheme(parts) == Len(parts) = 2

\* The header must be the word Bearer, one space, and the rest
HeaderForm(parts) == Len(parts) = 2 /\ parts[1] = "Bearer"

\* AuthMiddleware.Authenticate, followed by the rate limiter and the handler
\* as main mounts them under /api
Authenticate(parts, tok, reachable, limited) ==
    /\ LET secret == http.secret
           keys == KeyFunc(secret, tok, reachable)
           deny == Answer(secret, parts, tok, 401)
       IN  IF parts = <<"">> THEN http' = deny
           ELSE IF ~HeaderForm(parts) THEN http' = deny
           ELSE IF parts[2] = "" THEN http' = deny
           ELSE IF tok.form # "jwt" THEN http' = deny
           ELSE IF keys = {} THEN http' = deny
           ELSE \E key \in keys :
                   IF JwtParse(tok, key) # "nil" THEN http' = deny
                   ELSE IF tok.sub # "string" THEN http' = deny
                   ELSE IF limited THEN http' = Answer(secret, parts, tok, 429)
                   ELSE http' = [Answer(secret, parts, tok, 200) EXCEPT
                                    !.handled = TRUE, !.userId = "sub"]
    /\ UNCHANGED <<db, last, settleVars, claimVars, urows, ens, imp, extVars>>

\* ------------------------------------------------------------------ user records

\* What a token says about its user: the email and the display name
ClaimEmails == {"", "a@x", "b@x"}
ClaimNames == {"", "Al", "Alice"}
AvatarUrls == {"pic1"}
EnsureIds == {"u1"}

NoRows == <<>>
UserRow(email, name, avatar) == [email |-> email, name |-> name, avatar |-> avatar]

\* userRepository.GetByID: the row, or an error when there is none or the read fails
UserGetByID(rows, id, readFails) ==
    IF readFails \/ id \notin DOMAIN rows THEN [err |-> "error", row |-> UserRow("", "", NULL)]
    ELSE [err |-> "nil", row |-> rows[id]]

\* userRepository.Create: INSERT ... ON CONFLICT (id) DO UPDATE SET email, name
\* and avatar_url to the new values
UserCreate(rows, id, email, name, avatar) ==
    [x \in DOMAIN rows \cup {id} |->
        IF x = id THEN UserRow(email, name, avatar) ELSE rows[x]]

NoCall == [pc |-> "idle", id |-> NULL, email |-> "", name |-> "", err |-> "nil",
           returned |-> UserRow("", "", NULL)]

\* userService.EnsureUser up to the lookup: a row that is found is returned
EnsureUser(s, id, email, name, readFails) ==
    /\ ens[s].pc = "idle"
    /\ LET r == UserGetByID(urows, id, readFails)
       IN  ens' = [ens EXCEPT ![s] =
                      IF r.err = "nil"
                      THEN [NoCall EXCEPT !.id = id, !.returned = r.row]
                      ELSE [pc |-> "create", id |-> id, email |-> email,
                            name |-> IF name = "" THEN email ELSE name,
                            err |-> "nil", returned |-> UserRow("", "", NULL)]]
    /\ UNCHANGED <<db, last, settleVars, claimVars, urows, http, imp, extVars>>

\* userService.EnsureUser from the lookup that found nothing: the record is written
EnsureUserCreate(s) ==
    /\ ens[s].pc = "create"
    /\ LET c == ens[s]
       IN  /\ urows' = UserCreate(urows, c.id, c.email, c.name, NULL)
           /\ ens' = [ens EXCEPT ![s] =
                         [NoCall EXCEPT !.id = c.id,
                                        !.returned = UserRow(c.email, c.name, NULL)]]
    /\ UNCHANGED <<db, last, settleVars, claimVars, http, imp, extVars>>

\* userService.UpdateAvatar: UPDATE users SET avatar_url = $1 WHERE id = $2
UpdateAvatar(id, url) ==
    /\ urows' = IF id \in DOMAIN urows THEN [urows EXCEPT ![id].avatar = url] ELSE urows
    /\ UNCHANGED <<db, last, settleVars, claimVars, ens, http, imp, extVars>>

\* ------------------------------------------------------------------ Splitwise CSV import

fixedColumnCount == 5

\* The member columns of the header, and the number of fields of a full record
csvMembers == <<"Ann", "Bob">>
FullRecord == fixedColumnCount + Len(csvMembers)

\* strings.TrimSpace and strings.ToLower on the texts the files below use
TrimSpace(x) == IF x = " PAYMENT " THEN "PAYMENT" ELSE IF x = " " THEN "" ELSE x
ToLower(x) ==
    IF x \in {"Payment", "PAYMENT"} THEN "payment"
    ELSE IF x \in {"Total balance", "TOTAL BALANCE"} THEN "total balance"
    ELSE IF x = "Sub Total Balance fee" THEN "sub total balance fee"
    ELSE IF x = " PAYMENT " THEN " payment "
    ELSE IF x = "Payments" THEN "payments"
    ELSE IF x = "General" THEN "general"
    ELSE IF x = "Dinner" THEN "dinner"
    ELSE IF x = "Solo" THEN "solo"
    ELSE x

\* strings.Contains(x, "total balance")
ContainsTotalBalance(x) == x \in {"total balance", "sub total balance fee"}

\* strconv.ParseFloat, in thousandths
ParseFloat(x) ==
    IF x = "20.00" THEN [err |-> "nil", v |-> 20000]
    ELSE IF x = "10.00" THEN [err |-> "nil", v |-> 10000]
    ELSE IF x = "-10.00" THEN [err |-> "nil", v |-> -10000]
    ELSE IF x = "0" THEN [err |-> "nil", v |-> 0]
    ELSE [err |-> "syntax", v |-> 0]

\* time.Parse with the three layouts parseSplitwiseRow tries
ParseDate(x) == IF x \in {"2024-01-05", "01/31/2024", "5/1/2024"} THEN "nil" ELSE "syntax"

\* One record of the file as csv.Reader cuts it
Row(n, date, desc, cat, cost, ann, bob) ==
    [nfields |-> n, date |-> date, desc |-> desc, category |-> cat, cost |-> cost,
     ann |-> ann, bob |-> bob]

DataRows ==
    {Row(7, "2024-01-05", "Dinner", "General", "20.00", "10.00", "-10.00"),
     Row(7, "2024-01-05", "Solo", "General", "20.00", "0", "0"),
     Row(7, "01/31/2024", "Bob paid Ann", "Payment", "10.00", "-10.00", "10.00"),
     Row(7, "2024-01-05", "settle", " PAYMENT ", "10.00", "10.00", "-10.00"),
     Row(7, "2024-01-05", "settle", "payment", "10.00", "", ""),
     Row(7, "2024-01-05", "Dinner", "Payments", "20.00", "0", "0"),
     Row(7, "2024-01-31", "Total balance", " ", " ", "10.00", "-10.00"),
     Row(7, "2024-01-31", "Sub Total Balance fee", "General", "10.00", "10.00", "-10.00"),
     Row(3, "2024-01-31", "TOTAL BALANCE", "", "", "", ""),
     Row(7, "", "Dinner", "General", "20.00", "10.00", "-10.00"),
     Row(7, "soon", "Dinner", "General", "20.00", "10.00", "-10.00"),
     Row(7, "2024-01-05", "Dinner", "payment", "x", "10.00", "-10.00")}

RECURSIVE SeqsUpTo(_, _)
SeqsUpTo(S, n) ==
    IF n = 0 THEN {<<>>}
    ELSE LET shorter == SeqsUpTo(S, n - 1)
         IN  shorter \cup {Append(q, x) : q \in shorter, x \in S}

\* A file: a header with the member columns or without them, then data records
Files == [header : {FullRecord, fixedColumnCount}, rows : SeqsUpTo(DataRows, MaxRows)]

\* The member mapping of the request: a user id, NULL to ask for a placeholder,
\* or no entry at all; "ghost" is an id no users row has
Mappings ==
    {[m \in {"Ann", "Bob"} |-> IF m = "Ann" THEN "u1" ELSE t] : t \in {"u2", NULL, "ghost"}}
    \cup {[m \in {"Ann"} |-> "u1"]}

\* csv.Reader.Read with FieldsPerRecord = 0: a record whose field count differs
\* from the header's comes back with ErrFieldCount
ReadErr(file, row) == row.nfields # file.header

\* The counting loop of PreviewSplitwiseCSV
RECURSIVE PreviewRows(_, _, _)
PreviewRows(file, rows, acc) ==
    IF rows = <<>> THEN acc
    ELSE LET row == rows[1]
             rest == Tail(rows)
         IN  IF ReadErr(file, row) THEN PreviewRows(file, rest, acc)
             ELSE IF row.nfields < fixedColumnCount \/ TrimSpace(row.date) = ""
             THEN PreviewRows(file, rest, acc)
             ELSE IF ContainsTotalBalance(ToLower(row.desc)) THEN PreviewRows(file, rest, acc)
             ELSE IF ToLower(TrimSpace(row.category)) = "payment"
             THEN PreviewRows(file, rest, [acc EXCEPT !.payments = @ + 1])
             ELSE PreviewRows(file, rest,
                              [acc EXCEPT !.expenses = @ + 1,
                                          !.total = @ + ParseFloat(TrimSpace(row.cost)).v])

\* importService.parseSplitwiseRow: "skip", an error, or the parsed row
parseSplitwiseRow(record) ==
    LET cost == ParseFloat(TrimSpace(record.cost))
        bal(x) == LET b == ParseFloat(TrimSpace(x)) IN IF b.err = "nil" THEN b.v ELSE 0
        none == [desc |-> "", category |-> "", cost |-> 0, ann |-> 0, bob |-> 0]
    IN  IF record.nfields < fixedColumnCount THEN [err |-> "insufficient_columns", row |-> none]
        ELSE IF TrimSpace(record.date) = "" THEN [err |-> "skip", row |-> none]
        ELSE IF ContainsTotalBalance(ToLower(record.desc)) THEN [err |-> "skip", row |-> none]
        ELSE IF ParseDate(TrimSpace(record.date)) # "nil"
        THEN [err |-> "invalid_date", row |-> none]
        ELSE IF cost.err # "nil" THEN [err |-> "invalid_cost", row |-> none]
        ELSE [err |-> "nil",
              row |-> [desc |-> TrimSpace(record.desc), category |-> TrimSpace(record.category),
                       cost |-> cost.v, ann |-> bal(record.ann), bob |-> bal(record.bob)]]

\* The reading loop of ImportSplitwiseCSV: the parsed rows and the error list
RECURSIVE ReadRows(_, _, _, _)
ReadRows(file, records, rowNum, acc) ==
    IF records = <<>> THEN acc
    ELSE LET n == rowNum + 1
             rest == Tail(records)
             parsed == parseSplitwiseRow(records[1])
         IN  IF ReadErr(file, records[1])
             THEN ReadRows(file, rest, n,
                           [acc EXCEPT !.errors = Append(@, [row |-> n, msg |-> "failed_to_parse"])])
             ELSE IF parsed.err = "skip" THEN ReadRows(file, rest, n, acc)
             ELSE IF parsed.err # "nil"
             THEN ReadRows(file, rest, n,
                           [acc EXCEPT !.errors = Append(@, [row |-> n, msg |-> parsed.err])])
             ELSE ReadRows(file, rest, n, [acc EXCEPT !.rows = Append(@, parsed.row)])

\* A users row exists for every id but "ghost"
UserExists(u) == u # "ghost"

\* The id of the placeholder user the import creates for a member column
PlaceholderFor(m) == IF m = "Ann" THEN "pAnn" ELSE "pBob"

\* The ids the import gives the expenses it creates, by position in the parsed rows
ImportIds == {100 + i : i \in 1..MaxRows}

\* One statement inside the import transaction.  After a statement has failed
\* the transaction is aborted: every later statement fails too.
ExecStmt(t, st, e) ==
    IF t.aborted THEN [db |-> t.db, aborted |-> TRUE, err |-> "tx_aborted"]
    ELSE IF st.kind = "expense"
    THEN [db |-> InsertExpense(t.db, e, st.row), aborted |-> FALSE, err |-> "nil"]
    ELSE IF ~UserExists(st.user)
    THEN [db |-> t.db, aborted |-> TRUE, err |-> "fk_violation"]
    ELSE IF st.kind = "payer"
    THEN [db |-> CreatePayer(t.db, e, P(st.user, st.amount)), aborted |-> FALSE, err |-> "nil"]
    ELSE [db |-> CreateSplit(t.db, e, st.idx, P(st.user, st.amount)),
          aborted |-> FALSE, err |-> "nil"]

\* The element of a one-element set
Only(S) == CHOOSE x \in S : TRUE

\* Statements in order, up to and including the first that fails
RECURSIVE RunStmts(_, _, _)
RunStmts(t, sts, e) ==
    IF sts = <<>> THEN [db |-> t.db, aborted |-> t.aborted, err |-> "nil"]
    ELSE Only({IF r.err # "nil" THEN r ELSE RunStmts(r, Tail(sts), e) :
                  r \in {ExecStmt(t, sts[1], e)}})

ExpenseStmt(g, row, cat) ==
    [kind |-> "expense", user |-> NULL, amount |-> 0, idx |-> 0,
     row |-> [group |-> g, paidBy |-> NULL, total |-> row.cost, currency |-> "INR",
              category |-> cat]]
PayerStmt(u, a) ==
    [kind |-> "payer", user |-> u, amount |-> a, idx |-> 0,
     row |-> [group |-> NULL, paidBy |-> NULL, total |-> 0, currency |-> "INR",
              category |-> "EXPENSE"]]
SplitStmt(u, a, i) == [PayerStmt(u, a) EXCEPT !.kind = "split", !.idx = i]

\* row.Balances, in the order of the member columns
Balances(row) == <<[name |-> "Ann", balance |-> row.ann], [name |-> "Bob", balance |-> row.bob]>>

RECURSIVE SelectBalances(_, _)
SelectBalances(bs, owing) ==
    IF bs = <<>> THEN <<>>
    ELSE IF (owing /\ bs[1].balance < -AmountTolerance)
            \/ (~owing /\ bs[1].balance > AmountTolerance)
    THEN <<bs[1]>> \o SelectBalances(Tail(bs), owing)
    ELSE SelectBalances(Tail(bs), owing)

RECURSIVE SumBalances(_)
SumBalances(bs) == IF bs = <<>> THEN 0 ELSE Abs(bs[1].balance) + SumBalances(Tail(bs))

\* importService.importExpenseRow: the payers and splits it derives, then its statements
importExpenseRow(t, g, e, row, mapping) ==
    LET bs == Balances(row)
        totalOwed == SumBalances(SelectBalances(bs, TRUE))
        payerShare == row.cost - totalOwed
        creditors == SelectBalances(bs, FALSE)
        debtors == SelectBalances(bs, TRUE)
        top == CHOOSE b \in {bs[i] : i \in 1..Len(bs)} :
                   \A o \in {bs[i] : i \in 1..Len(bs)} : o.balance <= b.balance
        payers == IF creditors # <<>>
                  THEN [i \in 1..Len(creditors) |->
                           PayerStmt(mapping[creditors[i].name],
                                     creditors[i].balance + payerShare)]
                  ELSE IF top.balance > 0 THEN <<PayerStmt(mapping[top.name], row.cost)>>
                  ELSE <<>>
        own == IF payerShare > AmountTolerance
               THEN [i \in 1..Len(creditors) |->
                        SplitStmt(mapping[creditors[i].name], payerShare, i)]
               ELSE <<>>
        owed == [i \in 1..Len(debtors) |->
                    SplitStmt(mapping[debtors[i].name], Abs(debtors[i].balance), Len(own) + i)]
    IN  RunStmts(t, <<ExpenseStmt(g, row, "EXPENSE")>> \o payers \o own \o owed, e)

\* importService.importPaymentRow
importPaymentRow(t, g, e, row, mapping) ==
    LET creditors == SelectBalances(Balances(row), FALSE)
        debtors == SelectBalances(Balances(row), TRUE)
    IN  IF creditors = <<>> \/ debtors = <<>>
        THEN [db |-> t.db, aborted |-> t.aborted, err |-> "no_payer_or_receiver"]
        ELSE LET payerID == mapping[creditors[Len(creditors)].name]
                 receiverID == mapping[debtors[Len(debtors)].name]
             IN  RunStmts(t, <<ExpenseStmt(g, row, "PAYMENT"), PayerStmt(payerID, row.cost),
                               SplitStmt(receiverID, row.cost, 1)>>, e)

\* The row loop of the unit of work: a failed row joins the error list and the
\* loop goes on
RECURSIVE ImportRows(_, _, _, _, _, _)
ImportRows(t, g, rows, i, mapping, acc) ==
    IF i > Len(rows) THEN [db |-> t.db, aborted |-> t.aborted, res |-> acc]
    ELSE LET row == rows[i]
             payment == ToLower(row.category) = "payment"
             after(r) ==
                 LET next == [db |-> r.db, aborted |-> r.aborted]
                 IN  IF r.err # "nil"
                     THEN ImportRows(next, g, rows, i + 1, mapping,
                                     [acc EXCEPT
                                         !.errors = Append(@, [row |-> i + 1, msg |-> r.err])])
                     ELSE IF payment
                     THEN ImportRows(next, g, rows, i + 1, mapping,
                                     [acc EXCEPT !.payments = @ + 1])
                     ELSE ImportRows(next, g, rows, i + 1, mapping,
                                     [acc EXCEPT !.expenses = @ + 1])
         IN  Only({after(r) : r \in {IF payment
                                    THEN importPaymentRow(t, g, 100 + i, row, mapping)
                                    ELSE importExpenseRow(t, g, 100 + i, row, mapping)}})

\* The unit of work of ImportSplitwiseCSV: placeholders for the members mapped
\* to nothing, then the rows
ImportFn(d, g, rows, mapping, acc) ==
    LET fresh == {m \in DOMAIN mapping : mapping[m] \in {NULL, ""}}
        resolved == [m \in DOMAIN mapping |->
                        IF m \in fresh THEN PlaceholderFor(m) ELSE mapping[m]]
        d1 == [d EXCEPT !.members = d.members \cup {<<g, PlaceholderFor(m)>> : m \in fresh}]
        r == ImportRows([db |-> d1, aborted |-> FALSE], g, rows, 1, resolved,
                        [acc EXCEPT !.placeholders = fresh])
    IN  [db |-> r.db, out |-> "nil", aborted |-> r.aborted, res |-> r.res]

ImportFaults == {"none", "begin", "commit"}

NoCounts == [expenses |-> 0, payments |-> 0, total |-> 0, errors |-> <<>>, rows |-> <<>>,
             placeholders |-> {}]

NoImport == [op |-> "none", caller |-> NULL, file |-> [header |-> FullRecord, rows |-> <<>>],
             mapping |-> <<>>, fault |-> "none", gate |-> "nil", err |-> "nil",
             aborted |-> FALSE, res |-> NoCounts]

\* importService.PreviewSplitwiseCSV
PreviewSplitwiseCSV(caller, g, file) ==
    /\ LET acc == RequireGroupMembership(db, g, caller)
           gate == IF acc # "nil" THEN acc
                   ELSE IF file.header < fixedColumnCount + 1 THEN "invalid_request"
                   ELSE "nil"
           counts == PreviewRows(file, file.rows, NoCounts)
       IN  /\ imp' = [NoImport EXCEPT !.op = "preview", !.caller = caller, !.file = file,
                                      !.gate = gate, !.err = gate,
                                      !.res = IF gate = "nil" THEN counts ELSE NoCounts]
           /\ last' = [ResultBy("PreviewSplitwiseCSV", gate, caller) EXCEPT
                          !.group = g, !.data = IF gate = "nil" THEN {g} ELSE {}]
    /\ UNCHANGED <<db, settleVars, claimVars, urows, ens, http, extVars>>

\* importService.ImportSplitwiseCSV
ImportSplitwiseCSV(caller, g, file, mapping, fault) ==
    /\ DOMAIN db.expenses \cap ImportIds = {}
    /\ LET acc == RequireGroupMembership(db, g, caller)
           gate == IF acc # "nil" THEN acc
                   ELSE IF file.header < fixedColumnCount + 1 THEN "invalid_request"
                   ELSE IF \E i \in 1..Len(csvMembers) : csvMembers[i] \notin DOMAIN mapping
                   THEN "invalid_request"
                   ELSE "nil"
           read == ReadRows(file, file.rows, 1, NoCounts)
           fn == ImportFn(db, g, read.rows, mapping, read)
           \* Commit of an aborted transaction rolls it back and reports an error
           t == WithTx(db, IF fault = "none" /\ fn.aborted THEN "commit" ELSE fault, fn)
           err == IF gate # "nil" THEN gate ELSE IF t.tx.err # "nil" THEN "db_error" ELSE "nil"
       IN  /\ db' = IF gate # "nil" THEN db ELSE t.db
           /\ imp' = [NoImport EXCEPT !.op = "import", !.caller = caller, !.file = file,
                                      !.mapping = mapping, !.fault = fault, !.gate = gate,
                                      !.err = err,
                                      !.aborted = gate = "nil" /\ fault # "begin" /\ fn.aborted,
                                      !.res = IF err = "nil" THEN fn.res ELSE NoCounts]
           /\ last' = [ResultBy("ImportSplitwiseCSV", err, caller) EXCEPT
                          !.group = g, !.data = IF err = "nil" THEN {g} ELSE {}]
    /\ UNCHANGED <<settleVars, claimVars, urows, ens, http, extVars>>

\* ------------------------------------------------------------------ receipt scan reply

MaxChunks == 4

\* The backtick character
BT == "bt"

\* Pieces the reply of the model is made of: code fences, a stray backtick, the
\* four whitespace characters, a quote, a backslash and a letter
TextChunks ==
    {<<BT, BT, BT>>, <<BT, BT, BT, "j", "s", "o", "n">>, <<BT>>,
     <<" ">>, <<"\n">>, <<"\t">>, <<"\r">>, <<"\"">>, <<"\\">>, <<"a">>}

RECURSIVE TextsUpTo(_)
TextsUpTo(n) ==
    IF n = 0 THEN {<<>>}
    ELSE LET shorter == TextsUpTo(n - 1)
         IN  shorter \cup {t \o c : t \in shorter, c \in TextChunks}

\* findString: the 0-based index of the first occurrence of substr in s, or -1
findString(s, substr) ==
    LET hits == {i \in 0..(Len(s) - Len(substr)) : SubSeq(s, i + 1, i + Len(substr)) = substr}
    IN  IF hits = {} THEN -1 ELSE CHOOSE i \in hits : \A j \in hits : i <= j

\* s[from:] of Go, from a 0-based index
SliceFrom(s, from) == SubSeq(s, from + 1, Len(s))

RECURSIVE TrimBackticks(_)
TrimBackticks(s) ==
    IF s # <<>> /\ s[1] = BT THEN TrimBackticks(Tail(s))
    ELSE IF s # <<>> /\ s[Len(s)] = BT THEN TrimBackticks(SubSeq(s, 1, Len(s) - 1))
    ELSE s

\* removeMarkdownCodeBlocks
removeMarkdownCodeBlocks(text) ==
    LET fenceJson == findString(text, <<BT, BT, BT, "j", "s", "o", "n">>)
        fence == findString(text, <<BT, BT, BT>>)
        start == IF fenceJson # -1 THEN fenceJson + 7
                 ELSE IF fence # -1 THEN fence + 3
                 ELSE 0
        close == findString(SliceFrom(text, start), <<BT, BT, BT>>)
        end == IF close # -1 THEN start + close ELSE Len(text)
    IN  TrimBackticks(SubSeq(text, start + 1, end))

\* The loop of removeWhitespace from position i on
RECURSIVE removeWhitespaceFrom(_, _, _, _, _)
removeWhitespaceFrom(text, i, inString, escapeNext, result) ==
    IF i > Len(text) THEN result
    ELSE IF escapeNext
    THEN removeWhitespaceFrom(text, i + 1, inString, FALSE, Append(result, text[i]))
    ELSE IF text[i] = "\\"
    THEN removeWhitespaceFrom(text, i + 1, inString, TRUE, Append(result, text[i]))
    ELSE IF text[i] = "\""
    THEN removeWhitespaceFrom(text, i + 1, ~inString, FALSE, Append(result, text[i]))
    ELSE IF inString \/ text[i] \notin {" ", "\n", "\t", "\r"}
    THEN removeWhitespaceFrom(text, i + 1, inString, FALSE, Append(result, text[i]))
    ELSE removeWhitespaceFrom(text, i + 1, inString, FALSE, result)

removeWhitespace(text) == removeWhitespaceFrom(text, 1, FALSE, FALSE, <<>>)

cleanJSONResponse(text) ==
    Only({removeWhitespace(t) : t \in {removeMarkdownCodeBlocks(text)}})

NoScan == [text |-> <<>>, out |-> <<>>, done |-> FALSE]

\* receiptService.ParseReceipt from the reply of the model to the text handed
\* to json.Unmarshal
CleanResponse ==
    /\ ~scan.done
    /\ scan' = [scan EXCEPT !.out = cleanJSONResponse(scan.text), !.done = TRUE]
    /\ UNCHANGED <<coreVars, rl, upd, del, jwks, expl>>

\* ------------------------------------------------------------------ rate limits

\* services/constants.go
GeneralRateLimit == 500
AIRateLimit == 8

\* The one-minute window of both limiters, in clock ticks, and the last tick
TicksPerWindow == 3
MaxTicks == 4

\* Bursts of requests between two ticks
MaxBursts == 3

\* The routes under /api: the two AI routes and every other route
Routes == {"ai", "other"}

\* Requests arrive in bursts at one instant: so many to an AI route, so many
\* to another route
Bursts == [ai |-> 4, other |-> 250]

\* A limiter counts per window; it keeps the current and the previous window
NoCounter == [prev |-> 0, cur |-> 0]

\* httprate's sliding-window estimate at a tick: the previous window's count
\* weighted by the part of it that still lies within one window length, plus
\* the current count, rounded to the nearest integer
LimiterRate(c, tick) ==
    LET diff == tick % TicksPerWindow
    IN  (2 * (c.prev * (TicksPerWindow - diff) + c.cur * TicksPerWindow) + TicksPerWindow)
            \div (2 * TicksPerWindow)

\* httprate.LimitByIP(limit, 1*time.Minute) on one request of one client IP:
\* reject at the limit, count otherwise
LimitByIP(c, limit, tick) ==
    IF LimiterRate(c, tick) >= limit THEN [ok |-> FALSE, counter |-> c]
    ELSE [ok |-> TRUE, counter |-> [c EXCEPT !.cur = @ + 1]]

\* One authenticated request through the /api router: the general limiter,
\* then, on the AI routes, the AI limiter
ServeOne(r, route) ==
    LET g == LimitByIP(r.general, GeneralRateLimit, r.now)
        a == LimitByIP(r.ai, AIRateLimit, r.now)
        at == Len(r.served)
    IN  IF ~g.ok THEN [r EXCEPT !.status = 429]
        ELSE IF route = "ai" /\ ~a.ok THEN [r EXCEPT !.general = g.counter, !.status = 429]
        ELSE [r EXCEPT !.general = g.counter,
                       !.ai = IF route = "ai" THEN a.counter ELSE @,
                       !.served[at][route] = @ + 1,
                       !.status = 200]

\* n requests one after the other
RECURSIVE ServeMany(_, _, _)
ServeMany(r, route, n) ==
    IF n = 0 THEN r
    ELSE IF n = 1 THEN ServeOne(r, route)
    ELSE Only({ServeMany(x, route, n - n \div 2) : x \in {ServeMany(r, route, n \div 2)}})

NoServed == [x \in Routes |-> 0]

NoLimits == [now |-> 0, general |-> NoCounter, ai |-> NoCounter, status |-> 0,
             served |-> <<NoServed>>, sent |-> 0]

\* A burst of requests to /scan-receipt or /expenses/explain, or to another route
RouteRequests(route) ==
    /\ rl.sent < MaxBursts
    /\ rl' = [ServeMany(rl, route, Bursts[route]) EXCEPT !.sent = @ + 1]
    /\ UNCHANGED <<coreVars, scan, upd, del, jwks, expl>>

\* The clock moves on; at a window boundary the current counts become the
\* previous ones
Tick ==
    /\ rl.now < MaxTicks
    /\ LET t == rl.now + 1
           roll(c) == IF t % TicksPerWindow = 0 THEN [prev |-> c.cur, cur |-> 0] ELSE c
           kept == IF Len(rl.served) < TicksPerWindow THEN rl.served ELSE Tail(rl.served)
       IN  rl' = [rl EXCEPT !.now = t, !.general = roll(@), !.ai = roll(@), !.status = 0, !.sent = 0,
                            !.served = Append(kept, NoServed)]
    /\ UNCHANGED <<coreVars, scan, upd, del, jwks, expl>>

\* ------------------------------------------------------------------ concurrent expense updates

\* Request bodies of two clients that edit the same expense: different payers,
\* different splits, different receipt items, and one that names no payer
UpdateBodies ==
    {Req(20, <<P("u1", 20)>>, NULL, <<P("p1", 20)>>, <<{"u1"}>>, "INR"),
     Req(20, <<P("p1", 20)>>, NULL, <<P("u1", 10), P("p1", 10)>>, <<>>, "INR"),
     Req(15, <<>>, NULL, <<P("u1", 15)>>, <<{"p1"}, {"u1", "p1"}>>, "INR")}

NoDeleted == [payers |-> {}, splits |-> {}, items |-> {}]

NoUpdate ==
    [pc |-> "idle", e |-> 0, caller |-> NULL, err |-> "nil", total |-> 0, category |-> NULL,
     payers |-> <<>>, splits |-> <<>>, items |-> <<>>, deleted |-> NoDeleted]

NoUpdates == [tx |-> [s \in Slots |-> NoUpdate], order |-> <<>>, overlap |-> FALSE]

\* A transaction that has executed a statement and has neither committed nor
\* rolled back
InTx(t) == t.pc \in {"updated", "payers", "splits", "items"}

\* UPDATE expenses ... WHERE id ignoring the row lock another transaction holds
RowLockIgnored(e, s) == TRUE
\* UPDATE expenses ... WHERE id waits while another transaction that updated
\* the same row is still open
RowLockFree(e, s) == \A t \in Slots \ {s} : ~(InTx(upd.tx[t]) /\ upd.tx[t].e = e)

\* expenseService.Update up to WithTx: the expense is read, the caller's
\* membership is checked, the missing fields are taken from the row just read,
\* and the amounts are validated
UpdateRead(s, caller, e, req) ==
    /\ upd.tx[s].pc = "idle"
    /\ LET t == [NoUpdate EXCEPT !.e = e, !.caller = caller] IN
       IF e \notin DOMAIN db.expenses
       THEN upd' = [upd EXCEPT !.tx[s] = [t EXCEPT !.pc = "done", !.err = "expense_not_found"]]
       ELSE LET existing == db.expenses[e]
                paidBy == IF req.payers = <<>> /\ req.paidBy = NULL
                          THEN existing.paidBy ELSE req.paidBy
                payers == IF req.payers = <<>> /\ paidBy # NULL
                          THEN <<P(paidBy, req.total)>> ELSE req.payers
                v == validateExpenseAmounts(req.total, payers, req.splits)
            IN  IF ~IsMember(db, existing.group, caller)
                THEN upd' = [upd EXCEPT !.tx[s] =
                                [t EXCEPT !.pc = "done", !.err = "not_group_member"]]
                ELSE IF v # "nil"
                THEN upd' = [upd EXCEPT !.tx[s] = [t EXCEPT !.pc = "done", !.err = v]]
                ELSE upd' = [upd EXCEPT !.tx[s] =
                                [t EXCEPT !.pc = "begin", !.total = req.total,
                                          !.category = existing.category, !.payers = payers,
                                          !.splits = req.splits, !.items = req.items]]
    /\ UNCHANGED <<coreVars, scan, rl, del, jwks, expl>>

\* txRepo.Update: the first statement of the transaction
UpdateRow(s) ==
    /\ upd.tx[s].pc = "begin"
    /\ RowLockFree(upd.tx[s].e, s)
    /\ upd' = [upd EXCEPT !.tx[s].pc = "updated"]
    /\ UNCHANGED <<coreVars, scan, rl, del, jwks, expl>>

\* txRepo.DeletePayers and the CreatePayer loop: the DELETE removes the rows
\* that are committed when it runs
UpdatePayers(s) ==
    /\ upd.tx[s].pc = "updated"
    /\ upd' = [upd EXCEPT !.tx[s].pc = "payers",
                          !.tx[s].deleted.payers = PayersOf(db, upd.tx[s].e)]
    /\ UNCHANGED <<coreVars, scan, rl, del, jwks, expl>>

\* txRepo.DeleteSplits and the CreateSplit loop
UpdateSplits(s) ==
    /\ upd.tx[s].pc = "payers"
    /\ upd' = [upd EXCEPT !.tx[s].pc = "splits",
                          !.tx[s].deleted.splits = SplitsOf(db, upd.tx[s].e)]
    /\ UNCHANGED <<coreVars, scan, rl, del, jwks, expl>>

\* txRepo.DeleteReceiptItems and the CreateReceiptItem loop
UpdateItems(s) ==
    /\ upd.tx[s].pc = "splits"
    /\ upd' = [upd EXCEPT !.tx[s].pc = "items",
                          !.tx[s].deleted.items = ItemsOf(db, upd.tx[s].e)]
    /\ UNCHANGED <<coreVars, scan, rl, del, jwks, expl>>

\* What a transaction's statements make of the committed store
Committed(d, t) ==
    LET d1 == UpdateExpense(d, t.e, [total |-> t.total, category |-> t.category])
        d2 == [d1 EXCEPT !.payers = @ \ t.deleted.payers,
                         !.splits = @ \ t.deleted.splits,
                         !.items = @ \ t.deleted.items]
    IN  InsertItems(InsertSplits(InsertPayers(d2, t.e, t.payers), t.e, t.splits, 1),
                    t.e, t.items, 1)

\* WithTx: fn returned nil, Commit
UpdateCommit(s) ==
    /\ upd.tx[s].pc = "items"
    /\ db' = Committed(db, upd.tx[s])
    /\ upd' = [upd EXCEPT !.tx[s].pc = "done",
                          !.order = Append(@, s),
                          !.overlap = @ \/ \E t \in Slots \ {s} :
                                              upd.tx[t].pc \notin {"idle", "done"}]
    /\ last' = [ResultBy("ExpenseUpdate", "nil", upd.tx[s].caller) EXCEPT
                   !.group = db.expenses[upd.tx[s].e].group]
    /\ UNCHANGED <<settleVars, claimVars, urows, ens, http, imp, scan, rl, del, jwks, expl>>

\* ------------------------------------------------------------------ group deletion in steps

NoDelete == [pc |-> "idle", caller |-> NULL, g |-> NULL, err |-> "nil"]

\* groupService.Delete up to the DELETE: requireMembership and calculateBalances
DeleteCheck(caller, g) ==
    /\ del.pc \in {"idle", "done"}
    /\ LET r == [NoDelete EXCEPT !.caller = caller, !.g = g] IN
       del' = IF ~IsMember(db, g, caller)
              THEN [r EXCEPT !.pc = "done", !.err = "not_group_member"]
              ELSE IF calculateBalances(db, g) # {}
              THEN [r EXCEPT !.pc = "done", !.err = "cannot_delete_group_with_debts"]
              ELSE [r EXCEPT !.pc = "checked"]
    /\ UNCHANGED <<coreVars, scan, rl, upd, jwks, expl>>

\* groupRepo.Delete, issued on the pool after the check returned no balance
DeleteRow ==
    /\ del.pc = "checked"
    /\ db' = DeleteGroupRow(db, del.g)
    /\ del' = [del EXCEPT !.pc = "done"]
    /\ last' = [ResultBy("GroupDelete", "nil", del.caller) EXCEPT !.group = del.g]
    /\ UNCHANGED <<settleVars, claimVars, urows, ens, http, imp, scan, rl, upd, jwks, expl>>

\* ------------------------------------------------------------------ JWKS cache

MaxGoroutines == 2
Goroutines == 1..MaxGoroutines

\* The kid of a token header: none, one the issuer publishes, one it does not
Kids == {"", "k1", "k9"}

\* The key sets the JWKS endpoint may answer with, in document order; "bad" is
\* a key whose coordinates are not base64url
Documents == {<<>>, <<"k1">>, <<"k1", "k2">>, <<"bad", "k2">>}

\* What the fetch comes back with
Answers ==
    {[status |-> "ok", keys |-> d] : d \in Documents}
    \cup {[status |-> x, keys |-> <<>>] : x \in {"unreachable", "not_json"}}

NoKey == [pc |-> "idle", kid |-> "", key |-> NULL, err |-> "nil",
          seen |-> [loaded |-> FALSE, keys |-> {}], new |-> {}, todo |-> <<>>,
          rlocks |-> 0, wlocks |-> 0]

\* publicKeys is nil and lastFetch is the zero time after NewAuthMiddleware
NoCache == [loaded |-> FALSE, keys |-> {}, fresh |-> FALSE, readers |-> {}, writer |-> 0,
            pending |-> {}, g |-> [i \in Goroutines |-> NoKey]]

\* m.publicKeys != nil && time.Since(m.lastFetch) < m.fetchTimeout
CacheValid == jwks.loaded /\ jwks.fresh

\* sync.RWMutex.RLock returns when no writer holds the lock and none waits for it
CanRLock == jwks.writer = 0 /\ jwks.pending = {}

\* A write lock that is granted whoever holds the lock
CanLockAlways == TRUE
\* sync.RWMutex.Lock returns when no reader and no writer holds the lock
CanLock == jwks.readers = {} /\ jwks.writer = 0

\* A lookup that knows no token without kid
LookupKeyOfKid(kid, keys) == IF kid \in keys THEN {kid} ELSE {}
\* m.publicKeys[kid], and for a token without kid the first key the range over
\* the map yields: the keys the lookup may return, none meaning not found
LookupKey(kid, keys) ==
    IF kid \in keys THEN {kid}
    ELSE IF kid = "" THEN keys
    ELSE {}

\* The key function calls getSupabasePublicKey(kid)
GetKey(i, kid) ==
    /\ jwks.g[i].pc \in {"idle", "done"}
    /\ jwks' = [jwks EXCEPT !.g[i] = [NoKey EXCEPT !.pc = "rlock", !.kid = kid]]
    /\ UNCHANGED <<coreVars, scan, rl, upd, del, expl>>

\* m.publicKeyMu.RLock()
RLock(i) ==
    /\ jwks.g[i].pc = "rlock"
    /\ CanRLock
    /\ jwks' = [jwks EXCEPT !.readers = @ \cup {i}, !.g[i].rlocks = @ + 1,
                            !.g[i].pc = "read"]
    /\ UNCHANGED <<coreVars, scan, rl, upd, del, expl>>

\* The lookup under the read lock: the key of the kid, or any key of the map
\* for a token without kid, or nothing
CachedKey(i) ==
    /\ jwks.g[i].pc = "read"
    /\ LET kid == jwks.g[i].kid
           seen == [loaded |-> jwks.loaded, keys |-> jwks.keys]
           hits == IF ~CacheValid THEN {} ELSE LookupKey(kid, jwks.keys)
       IN  \/ /\ hits = {}
              /\ jwks' = [jwks EXCEPT !.g[i].pc = "runlock", !.g[i].seen = seen]
           \/ \E k \in hits :
                 jwks' = [jwks EXCEPT !.g[i].pc = "runlock", !.g[i].seen = seen,
                                      !.g[i].key = k]
    /\ UNCHANGED <<coreVars, scan, rl, upd, del, expl>>

\* m.publicKeyMu.RUnlock(): deferred when a key is returned, called before the
\* write lock is requested otherwise
RUnlock(i) ==
    /\ jwks.g[i].pc = "runlock"
    /\ jwks' = [jwks EXCEPT !.readers = @ \ {i}, !.g[i].rlocks = @ - 1,
                            !.g[i].pc = IF jwks.g[i].key # NULL THEN "done" ELSE "lock"]
    /\ UNCHANGED <<coreVars, scan, rl, upd, del, expl>>

\* m.publicKeyMu.Lock() is called: the goroutine waits, and readers that come
\* later wait behind it
LockCall(i) ==
    /\ jwks.g[i].pc = "lock"
    /\ jwks' = [jwks EXCEPT !.pending = @ \cup {i}, !.g[i].pc = "lockwait"]
    /\ UNCHANGED <<coreVars, scan, rl, upd, del, expl>>

\* m.publicKeyMu.Lock() returns; defer m.publicKeyMu.Unlock()
Lock(i) ==
    /\ jwks.g[i].pc = "lockwait"
    /\ CanLock
    /\ jwks' = [jwks EXCEPT !.pending = @ \ {i}, !.writer = i, !.g[i].wlocks = @ + 1,
                            !.g[i].pc = "check"]
    /\ UNCHANGED <<coreVars, scan, rl, upd, del, expl>>

\* The second lookup, under the write lock: only the key of the kid counts
CheckAgain(i) ==
    /\ jwks.g[i].pc = "check"
    /\ jwks' = IF CacheValid /\ jwks.g[i].kid \in jwks.keys
               THEN [jwks EXCEPT !.g[i].key = jwks.g[i].kid, !.g[i].pc = "unlock"]
               ELSE [jwks EXCEPT !.g[i].pc = "fetch"]
    /\ UNCHANGED <<coreVars, scan, rl, upd, del, expl>>

\* The three candidate URLs and the decoding of the answer: no endpoint answers
\* 200, the body is not JSON, or a document arrives
Fetch(i, answer) ==
    /\ jwks.g[i].pc = "fetch"
    /\ jwks' = IF answer.status = "unreachable"
               THEN [jwks EXCEPT !.g[i].err = "failed_to_fetch", !.g[i].pc = "unlock"]
               ELSE IF answer.status = "not_json"
               THEN [jwks EXCEPT !.g[i].err = "failed_to_decode", !.g[i].pc = "unlock"]
               ELSE [jwks EXCEPT !.g[i].new = {}, !.g[i].todo = answer.keys, !.g[i].pc = "build"]
    /\ UNCHANGED <<coreVars, scan, rl, upd, del, expl>>

\* One round of the loop over jwks.Keys: a key that does not decode is skipped,
\* the others go into newPublicKeys
BuildKey(i) ==
    /\ jwks.g[i].pc = "build"
    /\ jwks.g[i].todo # <<>>
    /\ LET key == Head(jwks.g[i].todo)
       IN  jwks' = [jwks EXCEPT !.g[i].todo = Tail(@),
                                !.g[i].new = IF key = "bad" THEN @ ELSE @ \cup {key}]
    /\ UNCHANGED <<coreVars, scan, rl, upd, del, expl>>

\* m.publicKeys = newPublicKeys, m.lastFetch = time.Now(), and the lookup that
\* ends the function
Publish(i) ==
    /\ jwks.g[i].pc = "build"
    /\ jwks.g[i].todo = <<>>
    /\ LET kid == jwks.g[i].kid
           keys == jwks.g[i].new
           hits == LookupKey(kid, keys)
           cached == [jwks EXCEPT !.loaded = TRUE, !.keys = keys, !.fresh = TRUE,
                                  !.g[i].pc = "unlock"]
       IN  \/ /\ hits = {}
              /\ jwks' = [cached EXCEPT !.g[i].err = "kid_not_found"]
           \/ \E k \in hits : jwks' = [cached EXCEPT !.g[i].key = k]
    /\ UNCHANGED <<coreVars, scan, rl, upd, del, expl>>

\* The deferred m.publicKeyMu.Unlock()
Unlock(i) ==
    /\ jwks.g[i].pc = "unlock"
    /\ jwks' = [jwks EXCEPT !.writer = 0, !.g[i].wlocks = @ - 1, !.g[i].pc = "done"]
    /\ UNCHANGED <<coreVars, scan, rl, upd, del, expl>>

\* fetchTimeout passes since lastFetch
Expire ==
    /\ jwks.fresh
    /\ jwks' = [jwks EXCEPT !.fresh = FALSE]
    /\ UNCHANGED <<coreVars, scan, rl, upd, del, expl>>

\* ------------------------------------------------------------------ explanation service

\* What the model client comes back with: one of two texts, no text, or an error
Replies == {"because", "since", "", "error"}

NoReply == [op |-> "none", caller |-> NULL, e |-> 0, err |-> "nil", text |-> ""]

\* expenses.explanation is NULL for every expense that is created
NoExplanations == [text |-> [e \in ExpenseIds |-> ""], pending |-> {}, out |-> NoReply]

\* explanationService.ExplainTransaction
ExplainTransaction(caller, e, reply) ==
    /\ LET r == [NoReply EXCEPT !.op = "explain", !.caller = caller, !.e = e] IN
       IF e \notin DOMAIN db.expenses
       THEN expl' = [expl EXCEPT !.out = [r EXCEPT !.err = "expense_not_found"]]
       ELSE IF expl.text[e] # ""
       THEN \* the explanation stored on the expense is returned as it is
            expl' = [expl EXCEPT !.out = [r EXCEPT !.text = expl.text[e]]]
       ELSE IF RequireGroupMembership(db, db.expenses[e].group, caller) # "nil"
       THEN expl' = [expl EXCEPT !.out = [r EXCEPT !.err = "not_group_member"]]
       ELSE IF reply = "error"
       THEN expl' = [expl EXCEPT !.out = [r EXCEPT !.err = "ai_service_error"]]
       ELSE \* a text that is not empty is stored by a goroutine of its own
            expl' = [expl EXCEPT !.out = [r EXCEPT !.text = reply],
                                 !.pending = IF reply # "" THEN @ \cup {<<e, reply>>} ELSE @]
    /\ UNCHANGED <<coreVars, scan, rl, upd, del, jwks>>

\* The goroutine ExplainTransaction starts: expenseRepo.UpdateExplanation
CacheExplanation(e, text) ==
    /\ <<e, text>> \in expl.pending
    /\ expl' = [expl EXCEPT !.pending = @ \ {<<e, text>>},
                            !.text[e] = IF e \in DOMAIN db.expenses THEN text ELSE @]
    /\ UNCHANGED <<coreVars, scan, rl, upd, del, jwks>>

NoExt ==
    /\ scan = NoScan
    /\ rl = NoLimits
    /\ upd = NoUpdates
    /\ del = NoDelete
    /\ jwks = NoCache
    /\ expl = NoExplanations

\* ------------------------------------------------------------------ the service as a whole

NoSettle ==
    /\ balances = <<>>
    /\ heaps = <<>>
    /\ settlements = <<>>
    /\ phase = <<>>
    /\ step = <<>>

NoClaims ==
    /\ reqs = [s \in Slots |-> Idle]
    /\ wins = [p \in Placeholders |-> 0]

NoAux ==
    /\ urows = NoRows
    /\ ens = [s \in Slots |-> NoCall]
    /\ http = NoRequest
    /\ imp = NoImport
    /\ NoExt

Init ==
    /\ db = InitDb
    /\ last = Result("none", "nil")
    /\ NoSettle
    /\ NoClaims
    /\ NoAux

\* A request whose every list has two rows, so that a failing statement of any
\* kind leaves earlier writes behind it in the transaction
FaultRequest == Req(20, <<P("u1", 10), P("p1", 10)>>, NULL, <<P("u1", 10), P("p1", 10)>>,
                    <<{"u1", "u2"}, {"p1"}>>, "INR")

\* expenseService.Delete
ExpenseDelete(caller, e) ==
    /\ IF e \notin DOMAIN db.expenses
       THEN /\ db' = db
            /\ last' = ResultBy("ExpenseDelete", "expense_not_found", caller)
       ELSE IF ~IsMember(db, db.expenses[e].group, caller)
       THEN /\ db' = db
            /\ last' = [ResultBy("ExpenseDelete", "not_group_member", caller) EXCEPT
                           !.group = db.expenses[e].group]
       ELSE /\ db' = [DropComments(db, {e}) EXCEPT
                                !.expenses = [x \in DOMAIN db.expenses \ {e} |-> db.expenses[x]],
                                !.payers = {r \in db.payers : r.expense # e},
                                !.splits = {r \in db.splits : r.expense # e},
                                !.items = {r \in db.items : r.expense # e}]
            /\ last' = [ResultBy("ExpenseDelete", "nil", caller) EXCEPT
                           !.group = db.expenses[e].group]
    /\ UNCHANGED <<auxVars, settleVars, claimVars>>

Next ==
    \/ \E caller \in RealUsers, g \in GroupIds, req \in Requests :
          ExpenseCreate(caller, g, req, "none")
    \/ \E caller \in RealUsers, g \in GroupIds, fault \in Faults :
          ExpenseCreate(caller, g, FaultRequest, fault)
    \/ \E caller \in RealUsers, e \in ExpenseIds, req \in Requests :
          ExpenseUpdate(caller, e, req, "none")
    \/ \E caller \in RealUsers, e \in ExpenseIds, fault \in Faults :
          ExpenseUpdate(caller, e, FaultRequest, fault)
    \/ \E caller \in RealUsers, e \in ExpenseIds : ExpenseDelete(caller, e)
    \/ \E g \in GroupIds, r \in RealUsers, f \in Users, t \in Users, a \in SettleAmounts :
          CreateSettlement(g, r, f, t, a, "none")
    \/ \E g \in GroupIds, fault \in Faults : CreateSettlement(g, "u1", "p1", "u1", 10, fault)
    \/ \E g \in GroupIds, f \in Users, t \in Users, a \in SettleAmounts :
          CreateRepayment(g, f, t, a, "none")
    \/ \E g \in GroupIds, fault \in Faults : CreateRepayment(g, "u1", "p1", 10, fault)
    \/ \E caller \in RealUsers, g \in GroupIds : GroupDelete(caller, g)
    \/ \E caller \in RealUsers, emails \in EmailLists, fault \in GroupFaults :
          GroupCreate(caller, emails, fault)

Spec == Init /\ [][Next]_vars

\* Requests that make the placeholder a payer, a split participant and the
\* expense-level payer, next to a real user or alone
ClaimRequests ==
    {Req(20, <<>>, "p1", <<P("u2", 20)>>, <<>>, "INR"),
     Req(20, <<P("u1", 10), P("p1", 10)>>, NULL, <<P("u1", 10), P("p1", 10)>>, <<>>, "INR"),
     Req(20, <<P("u1", 20)>>, NULL, <<P("p1", 14)>>, <<>>, "INR"),
     Req(20, <<P("u1", 20)>>, NULL, <<P("u2", 20)>>, <<>>, "INR")}

ClaimSteps(slots, ps, ts) ==
    \/ \E s \in slots, u \in RealUsers, p \in ps : ClaimPlaceholder(s, u, p)
    \/ \E s \in slots, p \in ps, t \in ts : AssignPlaceholder(s, p, t)
    \/ \E s \in slots : ClaimWrite(s)
    \/ \E s \in slots : TransferExpenses(s)

\* One request at a time: each handler runs to its end before the next starts
NextClaim ==
    \/ /\ Quiet
       /\ \E req \in ClaimRequests : ExpenseCreate("u1", "g1", req, "none")
    \/ /\ Quiet
       /\ \E e \in ExpenseIds : ExpenseDelete("u1", e)
    \/ ClaimSteps({1}, Users, Targets)

SpecClaim == Init /\ [][NextClaim]_vars

\* Requests served concurrently: the statements of two claim or assign
\* requests and of expense creation interleave
NextRace ==
    \/ ExpenseCreate("u1", "g1", FaultRequest, "none")
    \/ ClaimSteps(Slots, Placeholders, RealUsers)

SpecRace == Init /\ [][NextRace]_vars

\* Balance maps handed to CalculateSettlements: cent amounts, half-cent amounts
\* that round up, sub-cent residues, and the maps the tests name
SmallAmounts == {-40, -20, -15, -10, 0, 10, 20, 30, 40}

BMap(a, b, c) == [u \in SettleUsers |-> IF u = "A" THEN a ELSE IF u = "B" THEN b ELSE c]

InrMaps ==
    [SettleUsers -> SmallAmounts]
    \cup {BMap(10000, -10000, 0), BMap(6670, -3330, -3340), BMap(1, -1, 0),
          BMap(100000, -100000, 0), BMap(4, -4, 0)}
UsdMaps == {BMap(0, 0, 0), BMap(-30, 10, 20), BMap(50000, -50000, 0)}

BalanceMaps ==
    {[u \in SettleUsers |-> [c \in Currencies |-> IF c = "INR" THEN i[u] ELSE d[u]]] :
        i \in InrMaps, d \in UsdMaps}

InitSettle ==
    /\ db = InitDb
    /\ last = Result("none", "nil")
    /\ NoClaims
    /\ NoAux
    /\ balances \in BalanceMaps
    /\ heaps = [c \in Currencies |-> [creditor |-> {}, debtor |-> {}]]
    /\ settlements = <<>>
    /\ phase = [c \in Currencies |-> "init"]
    /\ step = NoStep

NextSettle ==
    \/ \E c \in Currencies : PushBalances(c)
    \/ \E c \in Currencies : SettleStep(c)
    \/ \E c \in Currencies : ReturnSettlements(c)

SpecSettle == InitSettle /\ [][NextSettle]_vars

\* Friends, comments and reactions next to membership changes: an expense that
\* leaves u2 in debt, and one that leaves nobody in debt
SocialRequests ==
    {Req(20, <<P("u1", 20)>>, NULL, <<P("u2", 20)>>, <<>>, "INR"),
     Req(20, <<P("u1", 20)>>, NULL, <<P("u1", 20)>>, <<>>, "INR")}

NextSocial ==
    \/ \E req \in SocialRequests : ExpenseCreate("u1", "g1", req, "none")
    \/ \E e \in ExpenseIds : ExpenseDelete("u1", e)
    \/ AddMember("u1", "g1", "u2@x")
    \/ RemoveMember("u1", "g1", "u2")
    \/ \E caller \in RealUsers, e \in ExpenseIds : AddComment(caller, e)
    \/ \E caller \in RealUsers, c \in CommentIds : DeleteComment(caller, c)
    \/ \E caller \in RealUsers, c \in CommentIds, emoji \in Emojis : AddReaction(caller, c, emoji)
    \/ \E caller \in RealUsers, c \in CommentIds, emoji \in Emojis :
          RemoveReaction(caller, c, emoji)
    \/ \E caller \in RealUsers, email \in Emails : AddFriendByEmail(caller, email)
    \/ \E caller \in RealUsers, friend \in RealUsers : RemoveFriend(caller, friend)

SpecSocial == Init /\ [][NextSocial]_vars

\* Every membership-gated operation, called by the member u1 and by u2, who is
\* a member only while u1 has added them; the CSV file arrives while the group
\* has no expense yet, and one comment and one reaction are enough
AccessFile == [header |-> FullRecord,
               rows |-> <<Row(7, "2024-01-05", "Solo", "General", "20.00", "0", "0")>>]
AccessMapping == [m \in {"Ann", "Bob"} |-> IF m = "Ann" THEN "u1" ELSE "u2"]

NextAccess ==
    \/ \E caller \in RealUsers, g \in GroupIds : GroupGetByID(caller, g)
    \/ \E caller \in RealUsers, g \in GroupIds : GroupUpdate(caller, g, "n1")
    \/ \E caller \in RealUsers, g \in GroupIds : GroupDelete(caller, g)
    \/ \E caller \in RealUsers, g \in GroupIds : AddMember(caller, g, "u2@x")
    \/ \E caller \in RealUsers, g \in GroupIds : RemoveMember(caller, g, "u2")
    \/ \E caller \in RealUsers, e \in ExpenseIds : ExpenseGetByID(caller, e)
    \/ \E caller \in RealUsers, g \in GroupIds : GetByGroupID(caller, g)
    \/ \E caller \in RealUsers, g \in GroupIds :
          ExpenseCreate(caller, g, Req(20, <<P("u1", 20)>>, NULL, <<P("u1", 20)>>, <<>>, "INR"),
                        "none")
    \/ \E caller \in RealUsers, e \in ExpenseIds :
          ExpenseUpdate(caller, e, Req(15, <<P("u1", 15)>>, NULL, <<P("u2", 15)>>, <<>>, "INR"),
                        "none")
    \/ \E caller \in RealUsers, e \in ExpenseIds : ExpenseDelete(caller, e)
    \/ \E caller \in RealUsers, g \in GroupIds : CalculateSettlements(caller, g)
    \/ \E caller \in RealUsers, g \in GroupIds : GetBalances(caller, g)
    \/ \E caller \in RealUsers, g \in GroupIds : GetTransactions(caller, g)
    \/ /\ db.expenses = <<>>
       /\ \E caller \in RealUsers, g \in GroupIds : PreviewSplitwiseCSV(caller, g, AccessFile)
    \/ /\ db.expenses = <<>>
       /\ \E caller \in RealUsers, g \in GroupIds :
              ImportSplitwiseCSV(caller, g, AccessFile, AccessMapping, "none")
    \/ /\ db.comments = <<>>
       /\ \E caller \in RealUsers, e \in ExpenseIds : AddComment(caller, e)
    \/ \E caller \in RealUsers, e \in ExpenseIds : GetComments(caller, e)
    \/ /\ db.reactions = {}
       /\ \E caller \in RealUsers : AddReaction(caller, 1, "+1")

SpecAccess == Init /\ [][NextAccess]_vars

\* One request at the middleware: the configuration and the request are drawn,
\* then the middleware answers
Pending(secret, parts, tok) == [NoRequest EXCEPT !.secret = secret, !.parts = parts, !.token = tok]

AuthRequests ==
    {Pending(secret, parts, tok) :
        secret \in Secrets, parts \in {h \in HeaderParts : "T" \in {h[i] : i \in 1..Len(h)}},
        tok \in Tokens}
    \cup {Pending(secret, parts, NoToken) :
        secret \in Secrets, parts \in {h \in HeaderParts : "T" \notin {h[i] : i \in 1..Len(h)}}}

InitAuth ==
    /\ db = InitDb
    /\ last = Result("none", "nil")
    /\ NoSettle
    /\ NoClaims
    /\ urows = NoRows
    /\ ens = [s \in Slots |-> NoCall]
    /\ imp = NoImport
    /\ NoExt
    /\ http \in AuthRequests

NextAuth ==
    /\ http.status = 0
    /\ \E reachable \in BOOLEAN, limited \in BOOLEAN :
          Authenticate(http.parts, http.token, reachable, limited)

SpecAuth == InitAuth /\ [][NextAuth]_vars

\* Calls of EnsureUser for one user id, two at a time, next to avatar updates
NextEnsure ==
    \/ \E s \in Slots, id \in EnsureIds, email \in ClaimEmails, name \in ClaimNames,
          readFails \in BOOLEAN : EnsureUser(s, id, email, name, readFails)
    \/ \E s \in Slots : EnsureUserCreate(s)
    \/ \E id \in EnsureIds, url \in AvatarUrls : UpdateAvatar(id, url)

SpecEnsure == Init /\ [][NextEnsure]_vars

\* One CSV request: the file, the mapping and the caller are drawn, then the
\* preview or the import runs
ImportRequests ==
    {[NoImport EXCEPT !.op = op, !.caller = caller, !.file = file, !.mapping = mapping,
                      !.fault = fault] :
        op \in {"preview_request", "import_request"}, caller \in RealUsers, file \in Files,
        mapping \in Mappings, fault \in ImportFaults}

InitImport ==
    /\ db = InitDb
    /\ last = Result("none", "nil")
    /\ NoSettle
    /\ NoClaims
    /\ urows = NoRows
    /\ ens = [s \in Slots |-> NoCall]
    /\ http = NoRequest
    /\ NoExt
    /\ imp \in ImportRequests

NextImport ==
    \/ /\ imp.op = "preview_request"
       /\ PreviewSplitwiseCSV(imp.caller, "g1", imp.file)
    \/ /\ imp.op = "import_request"
       /\ ImportSplitwiseCSV(imp.caller, "g1", imp.file, imp.mapping, imp.fault)

SpecImport == InitImport /\ [][NextImport]_vars

\* One reply of the model: the text is drawn, then it is cleaned
InitScan ==
    /\ db = InitDb
    /\ last = Result("none", "nil")
    /\ NoSettle
    /\ NoClaims
    /\ urows = NoRows
    /\ ens = [s \in Slots |-> NoCall]
    /\ http = NoRequest
    /\ imp = NoImport
    /\ rl = NoLimits
    /\ upd = NoUpdates
    /\ del = NoDelete
    /\ jwks = NoCache
    /\ expl = NoExplanations
    /\ scan \in {[NoScan EXCEPT !.text = t] : t \in TextsUpTo(MaxChunks)}

NextScan == CleanResponse

SpecScan == InitScan /\ [][NextScan]_vars

\* Requests of one client IP to the AI routes and to the other routes over two
\* windows of the limiters
NextRate ==
    \/ \E route \in Routes : RouteRequests(route)
    \/ Tick

SpecRate == Init /\ [][NextRate]_vars

\* Two clients edit the one expense of the group at the same time
StoredExpense ==
    CreateFn(InitDb, 1, [group |-> "g1", paidBy |-> "u1", total |-> 20, currency |-> "INR",
                         category |-> "EXPENSE"],
             <<P("u1", 20)>>, <<P("u1", 10), P("p1", 10)>>, <<{"u1", "p1"}>>, "none").db

InitUpdate ==
    /\ db = StoredExpense
    /\ last = Result("none", "nil")
    /\ NoSettle
    /\ NoClaims
    /\ NoAux

NextUpdate ==
    \/ \E s \in Slots, caller \in {"u1", "u2"}, req \in UpdateBodies :
          UpdateRead(s, caller, 1, req)
    \/ \E s \in Slots : UpdateRow(s)
    \/ \E s \in Slots : UpdatePayers(s)
    \/ \E s \in Slots : UpdateSplits(s)
    \/ \E s \in Slots : UpdateItems(s)
    \/ \E s \in Slots : UpdateCommit(s)

SpecUpdate == InitUpdate /\ [][NextUpdate]_vars


\* A member deletes the group while another member records or edits an expense
DeleteRequests ==
    {Req(20, <<P("u1", 20)>>, NULL, <<P("u1", 20)>>, <<>>, "INR"),
     Req(20, <<P("u1", 20)>>, NULL, <<P("u1", 10), P("p1", 10)>>, <<>>, "INR"),
     Req(20, <<P("u1", 10), P("p1", 10)>>, NULL, <<P("u1", 10), P("p1", 10)>>, <<>>, "INR"),
     Req(15, <<P("u1", 15)>>, NULL, <<P("p1", 15)>>, <<>>, "INR"),
     Req(20, <<P("p1", 20)>>, NULL, <<P("u1", 20)>>, <<{"u1"}>>, "USD")}

NextDelete ==
    \/ \E caller \in RealUsers, g \in GroupIds : DeleteCheck(caller, g)
    \/ DeleteRow
    \/ \E caller \in RealUsers, g \in GroupIds, req \in DeleteRequests :
          ExpenseCreate(caller, g, req, "none")
    \/ \E caller \in RealUsers, e \in ExpenseIds, req \in DeleteRequests :
          ExpenseUpdate(caller, e, req, "none")

SpecDelete == Init /\ [][NextDelete]_vars

\* Concurrent ES256 requests, each with the kid of its token
NextJwks ==
    \/ \E i \in Goroutines, kid \in Kids : GetKey(i, kid)
    \/ \E i \in Goroutines : RLock(i)
    \/ \E i \in Goroutines : CachedKey(i)
    \/ \E i \in Goroutines : RUnlock(i)
    \/ \E i \in Goroutines : LockCall(i)
    \/ \E i \in Goroutines : Lock(i)
    \/ \E i \in Goroutines : CheckAgain(i)
    \/ \E i \in Goroutines, answer \in Answers : Fetch(i, answer)
    \/ \E i \in Goroutines : BuildKey(i)
    \/ \E i \in Goroutines : Publish(i)
    \/ \E i \in Goroutines : Unlock(i)
    \/ Expire

SpecJwks == Init /\ [][NextJwks]_vars

\* Expenses are recorded and members and others ask for explanations
NextExplain ==
    \/ \E caller \in RealUsers, g \in GroupIds, req \in DeleteRequests :
          ExpenseCreate(caller, g, req, "none")
    \/ \E caller \in RealUsers, e \in ExpenseIds, req \in DeleteRequests :
          ExpenseUpdate(caller, e, req, "none")
    \/ \E caller \in RealUsers, e \in ExpenseIds, reply \in Replies :
          ExplainTransaction(caller, e, reply)
    \/ \E e \in ExpenseIds, text \in Replies : CacheExplanation(e, text)

SpecExplain == Init /\ [][NextExplain]_vars

\* ------------------------------------------------------------------ properties

MismatchErrors == {"amount_mismatch_payer", "amount_mismatch_split"}
ExpenseWrites == {"ExpenseCreate", "ExpenseUpdate"}

\* C1: every persisted expense's total equals, within 0.001, the sum of its
\* persisted payer rows and the sum of its persisted split rows.
C1TotalsAgree ==
    \A e \in DOMAIN db.expenses :
        /\ Abs(db.expenses[e].total - SumRows(PayersOf(db, e))) <= AmountTolerance
        /\ Abs(db.expenses[e].total - SumRows(SplitsOf(db, e))) <= AmountTolerance

\* C2: expense Create and Update fail with an amount-mismatch error and write
\* nothing whenever the payer sum or the split sum of the request differs from
\* the total by more than 0.001, the error naming the side that differs, and
\* they pass validation in every other case.
C2MismatchRejected ==
    [][(last'.op \in ExpenseWrites /\ last'.err \notin {"not_group_member", "expense_not_found"})
        => /\ (last'.payerOff \/ last'.splitOff) => (last'.err \in MismatchErrors /\ db' = db)
           /\ last'.err = "amount_mismatch_payer" => last'.payerOff
           /\ last'.err = "amount_mismatch_split" => last'.splitOff
           /\ (~last'.payerOff /\ ~last'.splitOff) => last'.err \notin MismatchErrors]_vars

AllDone == \A c \in Currencies : phase[c] = "done"

RECURSIVE SumEdges(_)
SumEdges(I) ==
    IF I = {} THEN 0
    ELSE LET j == CHOOSE x \in I : TRUE IN settlements[j].amount + SumEdges(I \ {j})

\* What u has paid, and what u has received, in currency c over the edges before edge n
PaidBefore(u, c, n) ==
    SumEdges({j \in 1..(n - 1) : settlements[j].currency = c /\ settlements[j].from = u})
ReceivedBefore(u, c, n) ==
    SumEdges({j \in 1..(n - 1) : settlements[j].currency = c /\ settlements[j].to = u})

\* The balance of u in currency c once every returned edge has been paid
Settled(u, c) ==
    balances[u][c] + PaidBefore(u, c, Len(settlements) + 1)
                   - ReceivedBefore(u, c, Len(settlements) + 1)

\* C3: in every currency whose balances sum to zero, paying every returned
\* edge leaves every member within 0.01 of zero.
C3AllSettled ==
    AllDone =>
        \A c \in Currencies :
            SumRows({[user |-> u, amount |-> balances[u][c]] : u \in SettleUsers}) = 0
                => \A u \in SettleUsers : Abs(Settled(u, c)) <= BalanceThreshold

InrOnly(m) == [u \in SettleUsers |-> [c \in Currencies |-> IF c = "INR" THEN m[u] ELSE 0]]

\* C4: every edge goes from a member whose rounded balance is below -0.01 to a
\* different member whose rounded balance is above 0.01, its amount is above
\* 0.01 and is the smaller of what the creditor is still owed and what the
\* debtor still owes, rounded to cents; and the three named maps give exactly
\* the named edges.
C4EdgesWellFormed ==
    /\ \A n \in 1..Len(settlements) :
          LET e == settlements[n]
              owed == Round2(balances[e.to][e.currency]) - ReceivedBefore(e.to, e.currency, n)
              owes == -Round2(balances[e.from][e.currency]) - PaidBefore(e.from, e.currency, n)
          IN  /\ Round2(balances[e.from][e.currency]) < -BalanceThreshold
              /\ Round2(balances[e.to][e.currency]) > BalanceThreshold
              /\ e.from # e.to
              /\ e.amount > BalanceThreshold
              /\ e.amount = Round2(Min(owed, owes))
    /\ (AllDone /\ balances = InrOnly(BMap(10000, -10000, 0)))
          => settlements = <<Edge("B", "A", 10000, "INR")>>
    /\ (AllDone /\ balances = InrOnly(BMap(6670, -3330, -3340)))
          => settlements = <<Edge("C", "A", 3340, "INR"), Edge("B", "A", 3330, "INR")>>
    /\ (AllDone /\ balances = InrOnly(BMap(1, -1, 0))) => settlements = <<>>

C4Witness ==
    /\ AllDone
    /\ balances = InrOnly(BMap(6670, -3330, -3340))
    /\ Len(settlements) = 2

TwoCurrencies ==
    [u \in SettleUsers |-> [c \in Currencies |->
        IF c = "INR" THEN BMap(100000, -100000, 0)[u] ELSE BMap(50000, -50000, 0)[u]]]

\* C5: every edge carries one currency, and what a member pays or receives in
\* that currency is bounded by the member's balance in that currency alone,
\* whatever the balances in the other currency; the named two-currency map
\* gives exactly one INR edge of 100 and one USD edge of 50, both B to A.
C5CurrenciesIndependent ==
    /\ \A n \in 1..Len(settlements) : settlements[n].currency \in Currencies
    /\ \A c \in Currencies, u \in SettleUsers :
          LET b == Round2(balances[u][c])
              n == Len(settlements) + 1
          IN  /\ PaidBefore(u, c, n) <= (IF b < 0 THEN -b ELSE 0)
              /\ ReceivedBefore(u, c, n) <= (IF b > 0 THEN b ELSE 0)
    /\ (AllDone /\ balances = TwoCurrencies)
          => /\ Len(settlements) = 2
             /\ {settlements[n] : n \in 1..2} =
                    {Edge("B", "A", 100000, "INR"), Edge("B", "A", 50000, "USD")}

C5Witness ==
    /\ AllDone
    /\ balances = TwoCurrencies
    /\ Len(settlements) = 2

\* C6: WithTx calls Commit exactly when the unit of work returned no error; when
\* it returned an error the transaction is rolled back, nothing is written and
\* that error is what the caller gets; when it panicked the transaction is
\* rolled back, nothing is written and the panic goes on.
C6CommitIffNoError ==
    [][last'.tx.begun
        => /\ last'.tx.commit <=> last'.tx.fn = "nil"
           /\ last'.tx.fn \notin {"nil", "panic"}
                 => (last'.tx.rollback /\ last'.err = last'.tx.fn /\ db' = db /\ ~last'.tx.panic)
           /\ last'.tx.fn = "panic"
                 => (last'.tx.rollback /\ last'.tx.panic /\ db' = db)
           /\ (last'.tx.fn = "nil" /\ last'.err = "nil") => ~last'.tx.rollback]_vars

C6Witness ==
    /\ last.tx.begun
    /\ last.tx.fn = "panic"
    /\ last.tx.rollback

C8ReferencesMoved ==
    [][\A s \in Slots :
          (reqs[s].pc # "done" /\ reqs'[s].pc = "done" /\ reqs'[s].err = "nil"
              /\ reqs'[s].user \in RealUsers)
          => LET p == reqs'[s].p
                 u == reqs'[s].user
                 b == reqs'[s].before
             IN  /\ \A r \in db'.payers \cup db'.splits : r.user # p
                 /\ \A e \in DOMAIN db'.expenses : db'.expenses[e].paidBy # p
                 /\ \A r \in b.payers : r.user = p => [r EXCEPT !.user = u] \in db'.payers
                 /\ \A r \in b.splits : r.user = p => [r EXCEPT !.user = u] \in db'.splits
                 /\ \A e \in DOMAIN b.expenses :
                       b.expenses[e].paidBy = p => db'.expenses[e].paidBy = u
                 /\ db'.claimedBy[p] # NULL
                 /\ p \notin GetUnclaimedPlaceholders(db')]_vars

C8Witness ==
    \E s \in Slots :
        /\ reqs[s].pc = "done"
        /\ reqs[s].err = "nil"
        /\ reqs[s].user \in RealUsers
        /\ \E e \in DOMAIN reqs[s].before.expenses : reqs[s].before.expenses[e].paidBy = reqs[s].p
        /\ \E e \in DOMAIN db.expenses : db.expenses[e].paidBy = reqs[s].user
        /\ \E r \in db.payers : r.user = reqs[s].user

\* C9: at most one claim or assign request of a placeholder returns nil, and
\* claimed_by never changes once it is set.
C9ClaimedOnce ==
    [][\A p \in Placeholders :
          /\ wins'[p] <= 1
          /\ db.claimedBy[p] # NULL => db'.claimedBy[p] = db.claimedBy[p]]_vars

Debts(d, g) == {b \in GetGroupMemberBalances(d, g) : Abs(b.balance) > BalanceThreshold}

\* C10: group Delete by a member fails with cannot-delete-group-with-debts and
\* deletes nothing when some balance of the group exceeds 0.01 in magnitude,
\* and otherwise deletes the group, its memberships and its expenses.
C10DeleteOnlySettled ==
    [][(last'.op = "GroupDelete" /\ last'.err # "not_group_member")
        => LET g == last'.group IN
           IF Debts(db, g) # {}
           THEN last'.err = "cannot_delete_group_with_debts" /\ db' = db
           ELSE /\ last'.err = "nil"
                /\ g \notin db'.groups
                /\ \A m \in db'.members : m[1] # g
                /\ \A e \in DOMAIN db'.expenses : db'.expenses[e].group # g
                /\ \A r \in db'.payers \cup db'.splits : r.expense \in DOMAIN db'.expenses]_vars

C10Witness ==
    /\ last.op = "GroupDelete"
    /\ last.err = "cannot_delete_group_with_debts"
    /\ Debts(db, "g1") # {}

\* ------------------------------------------------------------------ access, friends, comments

GroupScoped ==
    {"GroupGetByID", "GroupUpdate", "GroupDelete", "AddMember", "RemoveMember",
     "ExpenseGetByID", "GetByGroupID", "ExpenseCreate", "ExpenseUpdate", "ExpenseDelete",
     "CalculateSettlements", "GetBalances", "GetTransactions",
     "PreviewSplitwiseCSV", "ImportSplitwiseCSV", "AddComment", "GetComments", "AddReaction"}

\* C11: a group-scoped operation whose caller is not a member of the group it
\* addresses fails with the not-group-member error, hands back no data of the
\* group, and leaves the store as it was.
C11NonMemberForbidden ==
    [][(/\ last'.op \in GroupScoped
        /\ last'.group # NULL
        /\ ~IsMember(db, last'.group, last'.caller))
       => (/\ last'.err = "not_group_member"
           /\ last'.data = {}
           /\ db' = db
           /\ last'.op \in {"PreviewSplitwiseCSV", "ImportSplitwiseCSV"} => imp'.res = NoCounts)]_vars

\* A non-member was turned away from a comment of a group that has an expense
\* and a comment to protect
C11Witness ==
    /\ last.op = "AddReaction"
    /\ last.err = "not_group_member"
    /\ last.caller = "u2"
    /\ ~IsMember(db, "g1", "u2")
    /\ DOMAIN db.comments # {}
    /\ DOMAIN db.expenses # {}

\* ------------------------------------------------------------------ authentication

\* The Authorization header is the word Bearer, one space, and a non-empty token
BearerForm(parts) == Len(parts) = 2 /\ parts[1] = "Bearer" /\ parts[2] # ""

\* The token's signature is a valid HS256 signature under the configured secret
\* or a valid ES256 signature under a published key
SignatureVerifies(secret, tok) ==
    /\ tok.form = "jwt"
    /\ \/ /\ tok.alg = "HS256"
          /\ secret # ""
          /\ tok.signedWith \in {<<"hs", secret>>, <<"hs", Base64Decode(secret)>>}
       \/ /\ tok.alg = "ES256"
          /\ tok.signedWith \in {<<"es", k>> : k \in Jwks}

Admissible(h) ==
    /\ BearerForm(h.parts)
    /\ SignatureVerifies(h.secret, h.token)
    /\ h.token.sub = "string"

\* C12: under /api the handler runs only for a request whose header has the
\* form Bearer <token>, whose token's signature verifies under HS256 or ES256
\* and whose token carries a string sub claim; every other request is answered
\* 401 and the handler is not invoked.
C12HandlerOnlyIfAuthenticated ==
    http.status # 0 =>
        /\ http.handled => Admissible(http)
        /\ ~Admissible(http) => (http.status = 401 /\ ~http.handled)

\* A well-formed, unexpired token with a string sub came in a proper Bearer
\* header and was refused for its signature alone
C12Witness ==
    /\ http.status = 401
    /\ BearerForm(http.parts)
    /\ http.token.form = "jwt"
    /\ http.token.alg = "HS256"
    /\ http.token.signedWith = <<"hs", "guess">>
    /\ http.token.fresh
    /\ http.token.sub = "string"
    /\ http.secret = "s3cret"

\* ------------------------------------------------------------------ friends and members

\* C13: AddFriendByEmail for a (caller, friend) pair that is already stored
\* fails with the already-friends error.
C13SecondAddAlreadyFriends ==
    [][(/\ last'.op = "AddFriendByEmail"
        /\ <<last'.caller, last'.target>> \in db.friends)
       => last'.err = "already_friends"]_vars

\* C14: AddMember by a member, with the email of a user who is already a
\* member of the group, is reported as the already-a-member error.
C14DuplicateAddAlreadyMember ==
    [][(/\ last'.op = "AddMember"
        /\ IsMember(db, last'.group, last'.caller)
        /\ last'.target # NULL
        /\ IsMember(db, last'.group, last'.target))
       => last'.err = "already_member"]_vars

\* C15: no friends row pairs a user with themselves, and AddFriendByEmail with
\* the caller's own email fails with the cannot-add-self error and stores nothing.
C15NoSelfFriend ==
    /\ [](\A r \in db.friends : r[1] # r[2])
    /\ [][(/\ last'.op = "AddFriendByEmail"
           /\ last'.target = last'.caller)
          => (last'.err = "cannot_add_self" /\ db' = db)]_vars

\* A self-add was refused while friend rows exist
C15Witness ==
    /\ last.op = "AddFriendByEmail"
    /\ last.target = last.caller
    /\ last.err = "cannot_add_self"
    /\ db.friends # {}

\* ------------------------------------------------------------------ comments and reactions

ReactionsAt(d, c, u, emoji) == {r \in d.reactions : ReactionKey(r) = <<c, u, emoji>>}

\* C16: adding a reaction that is already stored succeeds and changes nothing,
\* a successful add leaves exactly one row for its (comment, user, emoji), and
\* removing a reaction that is not stored succeeds and changes nothing.
C16ReactionsIdempotent ==
    [][/\ (/\ last'.op = "AddReaction"
           /\ ReactionsAt(db, last'.comment, last'.caller, last'.emoji) # {}
           /\ last'.comment \in DOMAIN db.comments
           /\ checkAccess(db, db.comments[last'.comment].expense, last'.caller) = "nil")
          => (last'.err = "nil" /\ db' = db)
       /\ (last'.op = "AddReaction" /\ last'.err = "nil")
          => (/\ Cardinality(ReactionsAt(db', last'.comment, last'.caller, last'.emoji)) = 1
              /\ \A r \in ReactionsAt(db', last'.comment, last'.caller, last'.emoji) :
                    r.copies = 1)
       /\ (/\ last'.op = "RemoveReaction"
           /\ ReactionsAt(db, last'.comment, last'.caller, last'.emoji) = {})
          => (last'.err = "nil" /\ db' = db)]_vars

\* A second add met the stored row and still returned nil
C16Witness ==
    /\ last.op = "AddReaction"
    /\ last.cause = "duplicate_key"
    /\ last.err = "nil"
    /\ Cardinality(ReactionsAt(db, last.comment, last.caller, last.emoji)) = 1

\* C17: DeleteComment removes a comment only for its author; for any other
\* caller it fails with the unauthorized error and the comment stays.
C17AuthorOnlyDelete ==
    [][last'.op = "DeleteComment" =>
          \A c \in DOMAIN db.comments :
              /\ c \notin DOMAIN db'.comments => db.comments[c].author = last'.caller
              /\ (c = last'.comment /\ db.comments[c].author # last'.caller)
                 => (last'.err = "unauthorized" /\ db' = db)]_vars

\* Somebody else's comment was refused deletion and is still stored
C17Witness ==
    /\ last.op = "DeleteComment"
    /\ last.err = "unauthorized"
    /\ last.comment \in DOMAIN db.comments
    /\ db.comments[last.comment].author # last.caller

\* C18: an EnsureUser call never changes the email, name or avatar of a user
\* row that already exists, so the row keeps the values it was created with.
C18EnsureUserKeepsRow ==
    [][ens' # ens => \A id \in DOMAIN urows : urows'[id] = urows[id]]_vars

\* C19: an import that meets no structural failure (the caller passes the gate,
\* the transaction begins and its commit is not refused from outside) returns
\* its result with the row errors listed, and every row it counted is committed.
C19RowFailureKeepsBatch ==
    (imp.op = "import" /\ imp.gate = "nil" /\ imp.fault = "none")
        => /\ imp.err = "nil"
           /\ Cardinality(DOMAIN db.expenses \cap ImportIds)
                  = imp.res.expenses + imp.res.payments

\* The file without its i-th data record
WithoutRow(file, i) ==
    [file EXCEPT !.rows = SubSeq(file.rows, 1, i - 1) \o SubSeq(file.rows, i + 1, Len(file.rows))]

\* The counters and the error list the preview or the import produces for a file
Outcome(op, file, mapping) ==
    IF op = "preview" THEN PreviewRows(file, file.rows, NoCounts)
    ELSE LET read == ReadRows(file, file.rows, 1, NoCounts)
         IN  ImportFn(InitDb, "g1", read.rows, mapping, read).res

IsTotalBalance(row) == ContainsTotalBalance(ToLower(row.desc))
IsPayment(row) == ToLower(TrimSpace(row.category)) = "payment"

\* C20: in a preview or an import that returns a result, taking any one data
\* record out of the file changes the outcome as the record's class allows: a
\* total-balance record changes neither counter nor the error list, a payment
\* record changes at most the payment counter, by one, and any other record
\* changes at most the expense counter, by one.
C20RowsClassifiedOnce ==
    (imp.op \in {"preview", "import"} /\ imp.err = "nil")
        => \A i \in 1..Len(imp.file.rows) :
              LET row == imp.file.rows[i]
                  with == Outcome(imp.op, imp.file, imp.mapping)
                  without == Outcome(imp.op, WithoutRow(imp.file, i), imp.mapping)
              IN  /\ with.expenses = imp.res.expenses
                  /\ with.payments = imp.res.payments
                  /\ IF IsTotalBalance(row)
                     THEN /\ with.expenses = without.expenses
                          /\ with.payments = without.payments
                          /\ Len(with.errors) = Len(without.errors)
                     ELSE IF IsPayment(row)
                     THEN /\ with.expenses = without.expenses
                          /\ with.payments - without.payments \in {0, 1}
                     ELSE /\ with.payments = without.payments
                          /\ with.expenses - without.expenses \in {0, 1}

Whitespace == {" ", "\n", "\t", "\r"}

\* A text read as JSON reads it: the string literals in order, a backslash
\* inside a literal taking the next character with it, and whether a
\* whitespace character lies outside every literal
RECURSIVE Lex(_, _, _, _, _, _)
Lex(text, i, inString, cur, lits, outer) ==
    IF i > Len(text)
    THEN [lits |-> IF inString THEN Append(lits, cur) ELSE lits, outer |-> outer]
    ELSE IF inString /\ text[i] = "\\" /\ i < Len(text)
    THEN Lex(text, i + 2, TRUE, cur \o <<text[i], text[i + 1]>>, lits, outer)
    ELSE IF inString /\ text[i] = "\""
    THEN Lex(text, i + 1, FALSE, <<>>, Append(lits, Append(cur, text[i])), outer)
    ELSE IF inString
    THEN Lex(text, i + 1, TRUE, Append(cur, text[i]), lits, outer)
    ELSE IF text[i] = "\""
    THEN Lex(text, i + 1, TRUE, <<text[i]>>, lits, outer)
    ELSE Lex(text, i + 1, FALSE, <<>>, lits, outer \/ text[i] \in Whitespace)

Literals(text) ==
    LET l == Lex(text, 1, FALSE, <<>>, <<>>, FALSE).lits IN {l[i] : i \in 1..Len(l)}

\* C21: the cleaned text has no space, tab, newline or carriage return outside
\* a string literal, and every string literal in it is a string literal of the
\* input, character for character.
C21CleanKeepsLiterals ==
    scan.done => /\ ~Lex(scan.out, 1, FALSE, <<>>, <<>>, FALSE).outer
                 /\ Literals(scan.out) \subseteq Literals(scan.text)

\* Requests to a route that were let through at the ticks kept in rl.served,
\* which all lie within less than one window length
RECURSIVE ServedWithin(_, _)
ServedWithin(served, route) ==
    IF served = <<>> THEN 0 ELSE served[1][route] + ServedWithin(Tail(served), route)

\* C22: of the requests one client IP sends within one minute, no more than 8
\* to the AI routes and no more than 500 to the other routes are let through:
\* every further one is rejected.
C22RejectedBeyondLimit ==
    /\ ServedWithin(rl.served, "ai") <= AIRateLimit
    /\ ServedWithin(rl.served, "other") <= GeneralRateLimit

\* ------------------------------------------------------------------ concurrent updates

\* The rows one Update request writes for its expense, on a store that holds no
\* other row of that expense
SuppliedBy(t) ==
    WriteRows(DeleteReceiptItems(DeleteSplits(DeletePayers(db, t.e), t.e), t.e),
              t.e, t.payers, t.splits, t.items, "none").db

C24ErrorLeavesPlaceholder ==
    [][\A s \in Slots :
          (reqs'[s] # reqs[s] /\ reqs'[s].pc = "done" /\ reqs'[s].err # "nil"
           /\ reqs'[s].p \in Placeholders) =>
              LET b == reqs'[s].before
                  p == reqs'[s].p
              IN  /\ db'.claimedBy[p] = b.claimedBy[p]
                  /\ (b.claimedBy[p] = NULL => p \in GetUnclaimedPlaceholders(db'))
                  /\ db'.payers = b.payers
                  /\ db'.splits = b.splits
                  /\ db'.expenses = b.expenses]_vars

\* ------------------------------------------------------------------ group deletion

\* C25: a group is deleted only in a state in which no member of it has a
\* balance above the threshold
C25DeleteOnlyWhenSettled ==
    [][\A g \in GroupIds :
          (g \in db.groups /\ g \notin db'.groups) => calculateBalances(db, g) = {}]_vars

\* ------------------------------------------------------------------ imported amounts

\* C26: after an import has committed, every expense it created from a row
\* whose member balances sum to zero has a payer, and its payer amounts and its
\* split amounts each sum to the cost of the row within the tolerance
C26ImportedAmountsAgree ==
    (imp.op = "import" /\ imp.err = "nil") =>
        \A i \in 1..Len(imp.res.rows) :
            LET e == 100 + i
                row == imp.res.rows[i]
            IN  (e \in DOMAIN db.expenses /\ row.ann + row.bob = 0) =>
                    /\ PayersOf(db, e) # {}
                    /\ Abs(SumRows(PayersOf(db, e)) - row.cost) <= AmountTolerance
                    /\ Abs(SumRows(SplitsOf(db, e)) - row.cost) <= AmountTolerance

\* ------------------------------------------------------------------ JWKS cache lock

\* What a document decodes to
Decoded(doc) == {doc[j] : j \in 1..Len(doc)} \ {"bad"}

\* The goroutines between Lock and Unlock
Refreshing == {i \in Goroutines : jwks.g[i].pc \in {"check", "fetch", "build", "unlock"}}

\* A step of a goroutine that is inside getSupabasePublicKey
Advance ==
    \E i \in Goroutines :
        \/ RLock(i) \/ CachedKey(i) \/ RUnlock(i) \/ LockCall(i) \/ Lock(i)
        \/ CheckAgain(i) \/ BuildKey(i) \/ Publish(i) \/ Unlock(i)
        \/ \E answer \in Answers : Fetch(i, answer)

\* C27: at most one goroutine refreshes the cache at a time and none reads
\* meanwhile; a reader sees no map or a whole decoded document; every goroutine
\* holds each lock at most once and holds none when it returns; and while a
\* goroutine is inside the function some goroutine can take a step
C27CacheLockSafe ==
    /\ Cardinality(Refreshing) <= 1
    /\ Refreshing # {} => jwks.readers = {} /\ Refreshing = {jwks.writer}
    /\ \A i \in Goroutines :
          /\ jwks.g[i].seen.loaded => jwks.g[i].seen.keys \in {Decoded(d) : d \in Documents}
          /\ jwks.g[i].rlocks = (IF i \in jwks.readers THEN 1 ELSE 0)
          /\ jwks.g[i].wlocks = (IF jwks.writer = i THEN 1 ELSE 0)
          /\ jwks.g[i].pc = "done" => i \notin jwks.readers /\ jwks.writer # i
    /\ (\E i \in Goroutines : jwks.g[i].pc \notin {"idle", "done"}) => ENABLED Advance

\* One goroutine is half way through building the new map while another waits
\* for the write lock
C27Witness ==
    \E i \in Goroutines, j \in Goroutines :
        /\ jwks.g[i].pc = "build" /\ jwks.g[i].new # {} /\ jwks.g[i].todo # <<>>
        /\ jwks.g[j].pc = "lockwait"
        /\ jwks.loaded

\* ------------------------------------------------------------------ key lookup after a refresh

\* The goroutines that store a new key map in this step
Published(i) == jwks.g[i].pc = "build" /\ jwks'.g[i].pc = "unlock"

\* C28 as stated: when the kid of the token is not in the key set after the
\* refresh and the set holds exactly one key, that key is returned
C28SingleKeyFallback ==
    [][\A i \in Goroutines :
          (Published(i) /\ jwks.g[i].kid \notin jwks'.keys /\ Cardinality(jwks'.keys) = 1) =>
              jwks'.g[i].key \in jwks'.keys /\ jwks'.g[i].err = "nil"]_vars

\* C28 as the code has it: after a refresh the key of the kid is returned when
\* the set has it; a token without kid gets a key of the set when the set has
\* any, which is the single key when there is one; a kid the set lacks is an error
C28FallbackWithoutKid ==
    [][\A i \in Goroutines :
          Published(i) =>
              LET kid == jwks.g[i].kid
                  got == jwks'.g[i]
              IN  IF kid \in jwks'.keys THEN got.key = kid /\ got.err = "nil"
                  ELSE IF kid = "" /\ jwks'.keys # {}
                  THEN got.key \in jwks'.keys /\ got.err = "nil"
                  ELSE got.key = NULL /\ got.err = "kid_not_found"]_vars

\* A token without kid was given the one key of the set just fetched
C28Witness ==
    \E i \in Goroutines :
        /\ jwks.g[i].pc = "unlock"
        /\ jwks.g[i].kid = ""
        /\ jwks.g[i].key # NULL
        /\ jwks.keys = {jwks.g[i].key}

\* ------------------------------------------------------------------ explanations

\* C29: a caller who is not a member of the expense's group is answered with
\* the not-group-member error and no explanation text
C29ExplanationForMembersOnly ==
    (expl.out.op = "explain" /\ expl.out.err # "expense_not_found"
     /\ ~IsMember(db, db.expenses[expl.out.e].group, expl.out.caller)) =>
        expl.out.err = "not_group_member" /\ expl.out.text = ""

\* ------------------------------------------------------------------ settlement loop

\* The members on the two heaps of a currency
OnHeaps(h) == {<<"creditor", x.userID>> : x \in h.creditor} \cup {<<"debtor", x.userID>> : x \in h.debtor}

\* The edges of one currency
RECURSIVE EdgesIn(_, _)
EdgesIn(es, c) ==
    IF es = <<>> THEN 0 ELSE (IF es[1].currency = c THEN 1 ELSE 0) + EdgesIn(Tail(es), c)

\* C30: every iteration of the loop takes at least one member off the heaps and
\* puts nobody new on them, the iterations of one currency number at most its
\* creditors plus its debtors less one, and so do its edges
C30LoopBounded ==
    [][\A c \in Currencies :
          (step' # step /\ step'.currency = c) =>
              LET pushed == OnHeaps(BuildHeaps(UserBalances(balances, c)))
              IN  /\ OnHeaps(heaps'[c]) \subseteq OnHeaps(heaps[c])
                  /\ OnHeaps(heaps'[c]) # OnHeaps(heaps[c])
                  /\ step'.iter <= Cardinality(pushed) - 1
                  /\ EdgesIn(settlements', c) <= step'.iter]_vars

\* A loop that ended after as many iterations as the bound allows, two or more
C30Witness ==
    \E c \in Currencies :
        /\ phase[c] = "done"
        /\ step.currency = c
        /\ step.iter >= 2
        /\ step.iter = Cardinality(OnHeaps(BuildHeaps(UserBalances(balances, c)))) - 1

====
